---- MODULE Spec2Model ----
(***************************************************************************)
(* Options analytics core of the Nifty-Analysis repository: open-interest  *)
(* analytics (max pain, put/call ratio, support and resistance, ATM        *)
(* strike), portfolio Greeks aggregation, the implied-volatility solver,   *)
(* the pricing and Greeks functions, and the spot-price collaborators.     *)
(*                                                                         *)
(* Numbers are fixed point: prices in 1/100, delta, theta, vega and rho in *)
(* 1/1000000, gamma in 1/100000000, a put/call ratio is a pair <<n, d>>.   *)
(***************************************************************************)
EXTENDS Integers, Sequences, FiniteSets, TLC

VARIABLES
    oi_data,        \* the OI map: a dict in insertion order, rows [strike, call_oi, put_oi]
    oi_spot,        \* the spot price handed to the OI analytics
    analytics,      \* the result of the last OI analytics operation
    upstream,       \* what the data collaborators answer: [spot, hist]
    fetch_request,  \* the caller's optional parameters: [spot_price, volatility]
    fetch_result,   \* the outcome of the last operation that needs market data
    chain_request,  \* the chain builder's parameters: [spot_price, num_strikes, atm_only]
    chain,          \* the option chain built, a list of contract records
    chain_analysis, \* the summary analyze_options_chain returned for the chain
    nse_options,    \* the live option chain the NSE feed answers: None or its items
    strike_list,    \* the strike list a builder generated: [builder, base_strike, strikes]
    pricing_request,    \* a call of a pricing or Greeks function: [calc, S, K, days, sigma, option_type]
    pricing_result,     \* what that call produced
    positions,          \* the position list handed to the portfolio aggregation
    portfolio_spot,     \* the spot price handed to the portfolio aggregation
    portfolio_result,   \* what the portfolio aggregation produced
    iv_request,         \* a call of the implied-volatility solver: [calc, days, option_price]
    iv_state,           \* the solver's locals [pc, i, sigma] and the last point it evaluated
    iv_result,          \* what the solver returned
    options_data,       \* the caller's list of option records handed to the enhancer
    enhancer_spot,      \* the spot price handed to the enhancer
    rng_position,       \* how many values the module-level random stream has yielded
    enhancer_log,       \* the calls made so far: [op, input, output]
    clock_now,          \* what datetime.now() answers: [day, minute], day 0 being 2024-01-01
    expiry,             \* the expiry date the last expiry function returned
    http_call,           \* a call of _make_request: [fetcher, pc, attempt, sent, first_200, calls]
    http_session,        \* the fetcher's session: [clock, last_cookie_refresh, cookies_at]
    http_last,           \* the last data request sent: [cookie_age, refreshed], and the 401 flag
    http_result,        \* what the call of _make_request returned
    connector,           \* the module-level connector object: credentials, tokens, login_time, cache
    web_sessions,        \* the credentials each browser session carries in its flask session cookie
    conn_env,            \* the environment configuration, and whether the current JWT has expired
    conn_response,       \* the response to the last request: [seq, session, route, ...]
    conn_history        \* who submitted credentials, and the request that last cleared them

oiVars == <<oi_data, oi_spot, analytics>>

fetchVars == <<upstream, fetch_request, fetch_result>>

chainVars == <<chain_request, chain, chain_analysis, nse_options, strike_list>>

pricingVars == <<pricing_request, pricing_result>>

portfolioVars == <<positions, portfolio_spot, portfolio_result>>

ivVars == <<iv_request, iv_state, iv_result>>

enhancerVars == <<options_data, enhancer_spot, rng_position, enhancer_log>>

expiryVars == <<clock_now, expiry>>

requestVars == <<http_call, http_session, http_last, http_result>>

connectorVars == <<connector, web_sessions, conn_env, conn_response, conn_history>>

vars == <<oi_data, oi_spot, analytics, upstream, fetch_request, fetch_result,
          chain_request, chain, chain_analysis, nse_options, strike_list, pricing_request,
          pricing_result, positions, portfolio_spot, portfolio_result, iv_request, iv_state,
          iv_result, options_data, enhancer_spot, rng_position, enhancer_log,
          clock_now, expiry,
          http_call, http_session, http_last, http_result,
          connector, web_sessions, conn_env, conn_response, conn_history>>

\* the variables the OI analytics leave alone
nonOIVars == <<fetchVars, chainVars, pricingVars, portfolioVars, ivVars, enhancerVars, expiryVars, requestVars, connectorVars>>

\* the variables the market data operations leave alone
nonFetchVars == <<oiVars, chainVars, pricingVars, portfolioVars, ivVars, enhancerVars, expiryVars, requestVars, connectorVars>>

\* the variables the chain builder leaves alone
nonChainVars == <<oiVars, fetchVars, pricingVars, portfolioVars, ivVars, enhancerVars, expiryVars, requestVars, connectorVars>>

\* the variables the pricing and Greeks functions leave alone
nonPricingVars == <<oiVars, fetchVars, chainVars, portfolioVars, ivVars, enhancerVars, expiryVars, requestVars, connectorVars>>

\* the variables the portfolio aggregation leaves alone
nonPortfolioVars == <<oiVars, fetchVars, chainVars, pricingVars, ivVars, enhancerVars, expiryVars, requestVars, connectorVars>>

\* the variables the OI enhancer leaves alone
nonEnhancerVars == <<oiVars, fetchVars, chainVars, pricingVars, portfolioVars, ivVars, expiryVars, requestVars, connectorVars>>

\* the variables the implied-volatility solver leaves alone
nonIVVars == <<oiVars, fetchVars, chainVars, pricingVars, portfolioVars, enhancerVars, expiryVars, requestVars, connectorVars>>

\* the variables the expiry date functions leave alone
nonExpiryVars == <<oiVars, fetchVars, chainVars, pricingVars, portfolioVars, ivVars, enhancerVars, requestVars, connectorVars>>

\* the variables the NSE request loop leave alone
nonRequestVars == <<oiVars, fetchVars, chainVars, pricingVars, portfolioVars, ivVars, enhancerVars, expiryVars, connectorVars>>

\* the variables the Angel One connector leave alone
nonConnectorVars == <<oiVars, fetchVars, chainVars, pricingVars, portfolioVars, ivVars, enhancerVars, expiryVars, requestVars>>

----------------------------------------------------------------------------
(* Generic helpers *)

Abs(x) == IF x < 0 THEN -x ELSE x

Range(s) == {s[i] : i \in DOMAIN s}

RECURSIVE SeqSum(_)
SeqSum(s) == IF s = <<>> THEN 0 ELSE Head(s) + SeqSum(Tail(s))

RECURSIVE SetSum(_, _)
\* the sum of f[x] over the finite set S
SetSum(f, S) ==
    IF S = {} THEN 0
    ELSE LET x == CHOOSE y \in S : TRUE IN f[x] + SetSum(f, S \ {x})

\* Python's round(): to the nearest integer, a tie to the even one; n / d with d > 0
RoundHalfEven(n, d) ==
    LET q == n \div d
        r == n % d
    IN  IF 2 * r < d THEN q
        ELSE IF 2 * r > d THEN q + 1
        ELSE IF q % 2 = 0 THEN q ELSE q + 1

\* two ratios <<n, d>> denote the same number
RatEq(a, b) == a[1] * b[2] = b[1] * a[2]

----------------------------------------------------------------------------
(* Results, optional values, and the state of a component that is not in use *)

\* no operation has answered yet
NoResult == [op |-> "none"]

\* an optional value: None, a raised exception, or a value
None == [kind |-> "none"]

Raises == [kind |-> "raise"]

Value(v) == [kind |-> "value", v |-> v]

NoChain == <<[strike |-> 0, option_type |-> "none"]>>

NoStrikes == [builder |-> "none", base_strike |-> 0, strikes |-> <<>>]

OIIdle == oi_data = <<>> /\ oi_spot = 0 /\ analytics = NoResult

ChainIdle ==
    /\ chain_request = [spot_price |-> 0, num_strikes |-> 0, atm_only |-> FALSE]
    /\ chain = NoChain
    /\ chain_analysis = NoResult
    /\ nse_options = None
    /\ strike_list = NoStrikes

IdleUpstream == [spot |-> None, hist |-> None]

IdleRequest == [spot_price |-> None, volatility |-> None]

FetchIdle ==
    /\ upstream = IdleUpstream
    /\ fetch_request = IdleRequest
    /\ fetch_result = NoResult

PricingIdle ==
    /\ pricing_request = [calc |-> "none", S |-> 0, K |-> 0, days |-> 0, sigma |-> 0,
                          option_type |-> "none"]
    /\ pricing_result = NoResult

PortfolioIdle == positions = <<>> /\ portfolio_spot = 0 /\ portfolio_result = NoResult

IVIdle ==
    /\ iv_request = [calc |-> "none", days |-> 0, option_price |-> 0]
    /\ iv_state = [pc |-> "idle", i |-> 0, sigma |-> 0,
                   last |-> [sigma |-> -1, price_diff |-> 0]]
    /\ iv_result = NoResult

\* the components other than the three analytics ones are not in use
NumericsIdle == PricingIdle /\ PortfolioIdle /\ IVIdle

EnhancerIdle ==
    /\ options_data = <<>>
    /\ enhancer_spot = 0
    /\ rng_position = 0
    /\ enhancer_log = <<>>
ExpiryIdle ==
    /\ clock_now = [day |-> 0, minute |-> 0]
    /\ expiry = NoResult

\* no call of _make_request made yet
IdleCall ==
    [fetcher |-> "none", pc |-> "idle", attempt |-> 0, sent |-> 0, first_200 |-> None,
     first_ok |-> None, calls |-> 0]

\* the session after __init__: no cookies, last_cookie_refresh = None
NewSession == [clock |-> 0, last_cookie_refresh |-> None, cookies_at |-> None]

RequestIdle ==
    /\ http_call = IdleCall
    /\ http_session = NewSession
    /\ http_last = NoResult
    /\ http_result = NoResult

\* the browser sessions that send requests
WebSessions == {"s1", "s2"}

\* the applications: app.py (flask) and fastapi_app.py
Apps == {"app", "fastapi_app"}

\* no ANGEL_ONE_CLIENT_CODE, ANGEL_ONE_PIN or ANGEL_ONE_TOTP_SECRET in the environment
NoEnv == [client_code |-> None, pin |-> None, totp_secret |-> None]

\* the connector after __init__: credentials from the configuration, no tokens, empty cache
NewConnector(application, config) ==
    [app |-> application,
     client_code |-> config.client_code, pin |-> config.pin,
     totp_secret |-> config.totp_secret,
     jwt_token |-> None, refresh_token |-> None, feed_token |-> None, login_time |-> None,
     authorization |-> None, stored |-> None, cache |-> None]

\* no browser session has credentials in its session cookie
NoWebCredentials == [s \in WebSessions |-> None]

\* no request answered yet
NoResponse ==
    [seq |-> 0, session |-> "none", route |-> "none", success |-> FALSE, data |-> None,
     credentials_configured |-> FALSE, has_totp_secret |-> FALSE, client_code |-> None]

\* no session submitted credentials, nothing cleared
NoHistory == [submitted |-> {}, cleared_at |-> None]

ConnectorIdle ==
    /\ connector = NewConnector("app", NoEnv)
    /\ web_sessions = NoWebCredentials
    /\ conn_env = [config |-> NoEnv, jwt_expired |-> FALSE]
    /\ conn_response = NoResponse
    /\ conn_history = NoHistory


----------------------------------------------------------------------------
(* Bounds and input domains of the OI analytics *)

MaxStrikes == 3

StrikeStep == 100

OIStrikes == {StrikeStep * k : k \in 1..MaxStrikes}

\* (call_oi, put_oi) of one strike
OIPairs == {<<10, 50>>, <<30, 30>>, <<50, 10>>, <<0, 0>>, <<0, 30>>, <<30, 0>>}

OIRows == {[strike |-> k, call_oi |-> p[1], put_oi |-> p[2]] : k \in OIStrikes, p \in OIPairs}

\* a dict has one entry per key
DistinctStrikes(s) == \A i, j \in DOMAIN s : i # j => s[i].strike # s[j].strike

OIInputs == UNION {{s \in [1..n -> OIRows] : DistinctStrikes(s)} : n \in 0..MaxStrikes}

\* spot prices on, between and around the strikes
OISpots == {(StrikeStep * k) \div 2 : k \in 1..(2 * MaxStrikes + 1)}

----------------------------------------------------------------------------
(* OpenInterestCalculator.calculate_max_pain *)

\* the pain one dict entry adds for a test strike
EntryPain(test_strike, row) ==
    (IF test_strike > row.strike THEN (test_strike - row.strike) * row.call_oi ELSE 0)
    + (IF test_strike < row.strike THEN (row.strike - test_strike) * row.put_oi ELSE 0)

TotalPain(oi, test_strike) ==
    SeqSum([i \in DOMAIN oi |-> EntryPain(test_strike, oi[i])])

\* one {'strike', 'total_pain'} entry per key, in the dict's order
MaxPainData(oi) ==
    [i \in DOMAIN oi |-> [strike |-> oi[i].strike, total_pain |-> TotalPain(oi, oi[i].strike)]]

\* the first element whose key is maximal instead
FirstMaxIndexMutant(keys) ==
    CHOOSE i \in DOMAIN keys :
        /\ \A j \in DOMAIN keys : keys[i] >= keys[j]
        /\ \A j \in DOMAIN keys : j < i => keys[j] < keys[i]

\* min(seq, key=...): the first element whose key is minimal
FirstMinIndex(keys) ==
    CHOOSE i \in DOMAIN keys :
        /\ \A j \in DOMAIN keys : keys[i] <= keys[j]
        /\ \A j \in DOMAIN keys : j < i => keys[j] > keys[i]

calculate_max_pain(oi) ==
    IF oi = <<>> THEN [raised |-> "ValueError", strike |-> 0]
    ELSE LET data == MaxPainData(oi)
             i == FirstMinIndex([j \in DOMAIN data |-> data[j].total_pain])
         IN  [raised |-> "none", strike |-> data[i].strike]

CalculateMaxPain ==
    /\ analytics.op = "none"
    /\ analytics' = [op |-> "max_pain", result |-> calculate_max_pain(oi_data)]
    /\ UNCHANGED <<oi_data, oi_spot, nonOIVars>>

----------------------------------------------------------------------------
(* OpenInterestCalculator.identify_support_resistance *)

TopK == 3

\* sorted(seq, key=..., reverse=True): descending by key, equal keys in their
\* original order (the sort is stable)
SortByKeyDescStable(seq, keys) ==
    LET pos(i) == Cardinality({j \in DOMAIN seq :
                      keys[j] > keys[i] \/ (keys[j] = keys[i] /\ j < i)}) + 1
    IN  [r \in DOMAIN seq |-> seq[CHOOSE i \in DOMAIN seq : pos(i) = r]]

SortByKeyAscStableMutant(seq, keys) ==
    LET pos(i) == Cardinality({j \in DOMAIN seq :
                      keys[j] < keys[i] \/ (keys[j] = keys[i] /\ j < i)}) + 1
    IN  [r \in DOMAIN seq |-> seq[CHOOSE i \in DOMAIN seq : pos(i) = r]]

\* seq[:k]
Take(seq, k) == SubSeq(seq, 1, IF Len(seq) < k THEN Len(seq) ELSE k)

IsBelowSpot(row, spot) == row.strike < spot

IsAboveSpot(row, spot) == row.strike > spot

SupportCandidates(oi, spot) ==
    LET below == SelectSeq(oi, LAMBDA row : IsBelowSpot(row, spot))
    IN  [i \in DOMAIN below |->
            [strike |-> below[i].strike, oi |-> below[i].put_oi,
             distance |-> spot - below[i].strike]]

ResistanceCandidates(oi, spot) ==
    LET above == SelectSeq(oi, LAMBDA row : IsAboveSpot(row, spot))
    IN  [i \in DOMAIN above |->
            [strike |-> above[i].strike, oi |-> above[i].call_oi,
             distance |-> above[i].strike - spot]]

\* the entries' 'put_oi' and 'call_oi' keys are both called oi here
identify_support_resistance(oi, spot) ==
    LET sc == SupportCandidates(oi, spot)
        rc == ResistanceCandidates(oi, spot)
    IN  [support_levels |->
            Take(SortByKeyDescStable(sc, [i \in DOMAIN sc |-> sc[i].oi]), TopK),
         resistance_levels |->
            Take(SortByKeyDescStable(rc, [i \in DOMAIN rc |-> rc[i].oi]), TopK)]

IdentifySupportResistance ==
    /\ analytics.op = "none"
    /\ analytics' = [op |-> "support_resistance",
                     result |-> identify_support_resistance(oi_data, oi_spot)]
    /\ UNCHANGED <<oi_data, oi_spot, nonOIVars>>

----------------------------------------------------------------------------
(* Put/call ratio, OpenInterestCalculator.generate_oi_chart_data *)

\* p / c if c > 0 else 0, as a ratio
GuardedRatio(p, c) == IF c > 0 THEN <<p, c>> ELSE <<0, 1>>

\* the zero guard dropped: a zero denominator stands for ZeroDivisionError
UnguardedRatioRound4Mutant(p, c) ==
    IF c > 0 THEN <<RoundHalfEven(p * 10000, c), 10000>> ELSE <<p, 0>>

\* round(p / c, 4) if c > 0 else 0, as a ratio
GuardedRatioRound4(p, c) ==
    IF c > 0 THEN <<RoundHalfEven(p * 10000, c), 10000>> ELSE <<0, 1>>

\* the dict's rows in ascending strike order: sorted(oi_data.keys())
SortedByStrike(oi) ==
    LET pos(i) == Cardinality({j \in DOMAIN oi : oi[j].strike < oi[i].strike}) + 1
    IN  [r \in DOMAIN oi |-> oi[CHOOSE i \in DOMAIN oi : pos(i) = r]]

generate_oi_chart_data(oi) ==
    LET rows == SortedByStrike(oi)
        call_oi_values == [i \in DOMAIN rows |-> rows[i].call_oi]
        put_oi_values == [i \in DOMAIN rows |-> rows[i].put_oi]
    IN  [raised |-> "none",
         labels |-> [i \in DOMAIN rows |-> rows[i].strike],
         call_oi |-> call_oi_values,
         put_oi |-> put_oi_values,
         total_call_oi |-> SeqSum(call_oi_values),
         total_put_oi |-> SeqSum(put_oi_values),
         total_pcr |-> GuardedRatio(SeqSum(put_oi_values), SeqSum(call_oi_values))]

GenerateOIChartData ==
    /\ analytics.op = "none"
    /\ analytics' = [op |-> "oi_chart", result |-> generate_oi_chart_data(oi_data)]
    /\ UNCHANGED <<oi_data, oi_spot, nonOIVars>>

----------------------------------------------------------------------------
(* MarketDataEnhancer: the OI-annotated chain and its comprehensive analytics *)

\* str.lower() on the side tags in use
Lower(tag) ==
    CASE tag = "CALL" -> "call"
      [] tag = "PUT" -> "put"
      [] OTHER -> tag

\* the chain holds a CALL and a PUT record per strike (generate_options_chain),
\* and enhance_options_data writes the strike's call_oi or put_oi into each
EnhancedData(oi) ==
    [n \in 1..(2 * Len(oi)) |->
        LET row == oi[(n + 1) \div 2]
        IN  IF n % 2 = 1
            THEN [strike |-> row.strike, option_type |-> "CALL", open_interest |-> row.call_oi]
            ELSE [strike |-> row.strike, option_type |-> "PUT", open_interest |-> row.put_oi]]

\* sorted(list(set(...))) of the records' strikes
SortedStrikes(data) ==
    LET S == {data[i].strike : i \in DOMAIN data}
    IN  [r \in 1..Cardinality(S) |->
            CHOOSE k \in S : Cardinality({j \in S : j < k}) = r - 1]

\* next((opt for opt in side if opt['strike'] == strike), None), then its
\* open_interest, or 0 for None
FirstOpenInterest(side, strike) ==
    LET hits == SelectSeq(side, LAMBDA opt : opt.strike = strike)
    IN  IF hits = <<>> THEN 0 ELSE hits[1].open_interest

BuildOIData(enhanced_data) ==
    LET calls == SelectSeq(enhanced_data, LAMBDA opt : Lower(opt.option_type) = "call")
        puts == SelectSeq(enhanced_data, LAMBDA opt : Lower(opt.option_type) = "put")
        strikes == SortedStrikes(enhanced_data)
    IN  [i \in DOMAIN strikes |->
            [strike |-> strikes[i],
             call_oi |-> FirstOpenInterest(calls, strikes[i]),
             put_oi |-> FirstOpenInterest(puts, strikes[i])]]

\* min(strikes, key=lambda x: abs(x - spot_price))
NearestStrike(strikes, spot) ==
    strikes[FirstMinIndex([i \in DOMAIN strikes |-> Abs(strikes[i] - spot)])]

calculate_comprehensive_analytics(enhanced_data, spot) ==
    LET oi == BuildOIData(enhanced_data)
        strikes == SortedStrikes(enhanced_data)
        total_call_oi == SeqSum([i \in DOMAIN oi |-> oi[i].call_oi])
        total_put_oi == SeqSum([i \in DOMAIN oi |-> oi[i].put_oi])
        max_pain == calculate_max_pain(oi)
        levels == identify_support_resistance(oi, spot)
    IN  IF max_pain.raised # "none" THEN [raised |-> max_pain.raised]
        ELSE [raised |-> "none",
              spot_price |-> spot,
              atm_strike |-> NearestStrike(strikes, spot),
              max_pain_strike |-> max_pain.strike,
              total_call_oi |-> total_call_oi,
              total_put_oi |-> total_put_oi,
              total_pcr |-> GuardedRatioRound4(total_put_oi, total_call_oi),
              support_levels |-> levels.support_levels,
              resistance_levels |-> levels.resistance_levels,
              oi_chart_data |-> generate_oi_chart_data(oi)]

\* the open interest of a record that repeats a strike and side of the chain
DuplicateOI == 20

\* nothing, or one more record for a strike and side the chain already holds (the
\* live NSE chain lists a strike once per expiry)
RepeatedRecords(oi) ==
    {<<>>} \cup {<<[strike |-> oi[i].strike, option_type |-> tag,
                    open_interest |-> DuplicateOI]>> :
                     i \in DOMAIN oi, tag \in {"CALL", "PUT"}}

CalculateComprehensiveAnalytics ==
    /\ analytics.op = "none"
    /\ \E repeated \in RepeatedRecords(oi_data) :
           LET enhanced_data == EnhancedData(oi_data) \o repeated
           IN  analytics' = [op |-> "comprehensive",
                             result |-> calculate_comprehensive_analytics(enhanced_data,
                                                                          oi_spot),
                             enhanced_data |-> enhanced_data]
    /\ UNCHANGED <<oi_data, oi_spot, nonOIVars>>

----------------------------------------------------------------------------
(* OptionChainAnalyzer.analyze_option_chain (app.py): df is the calls and puts *)
(* merged on strike, one row per strike, here the rows of oi_data              *)

AppTotalPain(df, strike) ==
    SeqSum([i \in DOMAIN df |->
                IF df[i].strike < strike THEN (strike - df[i].strike) * df[i].call_oi ELSE 0])
    + SeqSum([i \in DOMAIN df |->
                IF df[i].strike > strike THEN (df[i].strike - strike) * df[i].put_oi ELSE 0])

\* df.nlargest(3, column)[['strike', column]]: descending, the first rows on ties
NLargest(df, keys) ==
    LET top == Take(SortByKeyDescStable([i \in DOMAIN df |-> i], keys), TopK)
    IN  [r \in DOMAIN top |-> [strike |-> df[top[r]].strike, oi |-> keys[top[r]]]]

analyze_option_chain(df, underlying_value) ==
    IF df = <<>> THEN [raised |-> "none", success |-> FALSE]
    ELSE LET pains == [i \in DOMAIN df |-> AppTotalPain(df, df[i].strike)]
             total_call_oi == SeqSum([i \in DOMAIN df |-> df[i].call_oi])
             total_put_oi == SeqSum([i \in DOMAIN df |-> df[i].put_oi])
         IN  [raised |-> "none",
              success |-> TRUE,
              underlying_value |-> underlying_value,
              atm_strike |->
                  df[FirstMinIndex([i \in DOMAIN df |-> Abs(df[i].strike - underlying_value)])].strike,
              max_pain_strike |-> df[FirstMinIndex(pains)].strike,
              total_call_oi |-> total_call_oi,
              total_put_oi |-> total_put_oi,
              total_pcr |-> GuardedRatioRound4(total_put_oi, total_call_oi),
              support_levels |-> NLargest(df, [i \in DOMAIN df |-> df[i].put_oi]),
              resistance_levels |-> NLargest(df, [i \in DOMAIN df |-> df[i].call_oi])]

AnalyzeOptionChain ==
    /\ analytics.op = "none"
    /\ analytics' = [op |-> "app_analyze", result |-> analyze_option_chain(oi_data, oi_spot)]
    /\ UNCHANGED <<oi_data, oi_spot, nonOIVars>>

----------------------------------------------------------------------------
(* The option chain builder and analyze_options_chain of yahoo_nifty_greeks.py *)

\* the strike step of the NIFTY chain
ChainStrikeStep == 50

\* the moneyness threshold of the chain records
ATMThreshold == 25

\* strikes on each side of ATM in the atm_only mode
ATMOnlyHalfWidth == 5

SpotBase == 24300

SpotGrain == 5

MaxSpotSteps == 20

ChainSpots == {SpotBase + SpotGrain * k : k \in 0..MaxSpotSteps}

MaxNumStrikes == 5

NumStrikesChoices == 3..MaxNumStrikes

\* base_strike = round(spot_price / 50) * 50
BaseStrike(spot) == RoundHalfEven(spot, ChainStrikeStep) * ChainStrikeStep

\* range(lo, hi + 1) as a sequence
IntRange(lo, hi) == [n \in 1..(hi - lo + 1) |-> lo + n - 1]

\* NiftyOptionsChain.generate_strike_prices; the offsets ascend, so sorted() keeps them
generate_strike_prices(spot, num_strikes, atm_only) ==
    LET base_strike == BaseStrike(spot)
        half_strikes == num_strikes \div 2
        offsets == IF atm_only THEN IntRange(-ATMOnlyHalfWidth, ATMOnlyHalfWidth)
                   ELSE IntRange(-half_strikes, half_strikes)
    IN  [n \in DOMAIN offsets |-> base_strike + offsets[n] * ChainStrikeStep]

\* the 'moneyness' of the CALL record
YahooCallMoneyness(strike, spot) ==
    IF strike < spot THEN "ITM"
    ELSE IF Abs(strike - spot) <= ATMThreshold THEN "ATM" ELSE "OTM"

\* the 'moneyness' of the PUT record
YahooPutMoneyness(strike, spot) ==
    IF strike > spot THEN "ITM"
    ELSE IF Abs(strike - spot) <= ATMThreshold THEN "ATM" ELSE "OTM"

\* NiftyOptionsChain.generate_options_chain: a CALL and a PUT record per strike
\* (the fields the chain analysis reads)
yahoo_generate_options_chain(spot, num_strikes, atm_only) ==
    LET strikes == generate_strike_prices(spot, num_strikes, atm_only)
    IN  [n \in 1..(2 * Len(strikes)) |->
            LET strike == strikes[(n + 1) \div 2]
            IN  IF n % 2 = 1
                THEN [strike |-> strike, option_type |-> "CALL", spot_price |-> spot,
                      moneyness |-> YahooCallMoneyness(strike, spot)]
                ELSE [strike |-> strike, option_type |-> "PUT", spot_price |-> spot,
                      moneyness |-> YahooPutMoneyness(strike, spot)]]

\* NiftyOptionsChain.analyze_options_chain: the summary's keys as a set, and the
\* atm_strike it holds when the chain has both an ATM call and an ATM put
yahoo_analyze_options_chain(df) ==
    IF df = <<>> THEN [keys |-> {}, atm_strike |-> 0]
    ELSE LET atm_options == SelectSeq(df, LAMBDA opt : opt.moneyness = "ATM")
             atm_calls == SelectSeq(atm_options, LAMBDA opt : opt.option_type = "CALL")
             atm_puts == SelectSeq(atm_options, LAMBDA opt : opt.option_type = "PUT")
             base_keys == {"spot_price", "total_options", "total_calls", "total_puts"}
         IN  IF atm_options # <<>> /\ atm_calls # <<>> /\ atm_puts # <<>>
             THEN [keys |-> base_keys \cup {"atm_strike"}, atm_strike |-> atm_calls[1].strike]
             ELSE [keys |-> base_keys, atm_strike |-> 0]

YahooGenerateOptionsChainBuild ==
    /\ chain = NoChain
    /\ chain' = yahoo_generate_options_chain(chain_request.spot_price,
                    chain_request.num_strikes, chain_request.atm_only)
    /\ UNCHANGED <<chain_request, chain_analysis, nse_options, strike_list, nonChainVars>>

YahooAnalyzeOptionsChain ==
    /\ chain # NoChain
    /\ chain_analysis.op = "none"
    /\ chain_analysis' = [op |-> "yahoo_analyze", result |-> yahoo_analyze_options_chain(chain)]
    /\ UNCHANGED <<chain_request, chain, nse_options, strike_list, nonChainVars>>

InitChain ==
    /\ chain_request \in [spot_price : ChainSpots, num_strikes : NumStrikesChoices,
                          atm_only : BOOLEAN]
    /\ chain = NoChain
    /\ chain_analysis = NoResult
    /\ nse_options = None
    /\ strike_list = NoStrikes
    /\ OIIdle
    /\ FetchIdle
    /\ NumericsIdle
    /\ EnhancerIdle
    /\ ExpiryIdle
    /\ RequestIdle
    /\ ConnectorIdle

NextChain ==
    \/ YahooGenerateOptionsChainBuild
    \/ YahooAnalyzeOptionsChain

SpecChain == InitChain /\ [][NextChain]_vars

----------------------------------------------------------------------------
(* The chain builder of nse_nifty_greeks.py: the live NSE chain when the   *)
(* feed answers one, a synthetic chain around the spot price otherwise     *)

MaxFeedItems == 2

FeedStrikes == {24300, 24350}

FeedExpiries == {"near", "next"}

\* an item of records.data: a strike of one expiry, with its CE and, if present, PE quote
FeedItems == [strikePrice : FeedStrikes, expiryDate : FeedExpiries, CE : {TRUE}, PE : BOOLEAN]

\* what the feed answers: None when the fetch fails, or the items of records.data
NSEFeeds == {None} \cup {Value(items) : items \in UNION {[1..n -> FeedItems] : n \in 0..MaxFeedItems}}

\* the window of the NSE builder: abs(strike - spot_price) < 50 is ATM
NSEATMWindow == 50

\* the chain a builder that raised leaves behind: none, and the exception
RaisedChain(error) == <<[strike |-> 0, option_type |-> error]>>

RECURSIVE get_options_data_df(_)
\* NSEDataFetcher.get_options_data_df: a CALL row and a PUT row per item, in feed order,
\* whatever the expiry of the item
get_options_data_df(items) ==
    IF items = <<>> THEN <<>>
    ELSE LET item == Head(items)
             ce == IF item.CE THEN <<[strike |-> item.strikePrice, option_type |-> "CALL"]>>
                   ELSE <<>>
             pe == IF item.PE THEN <<[strike |-> item.strikePrice, option_type |-> "PUT"]>>
                   ELSE <<>>
         IN  ce \o pe \o get_options_data_df(Tail(items))

\* NSEFinanceAPI.get_options_chain_data: None unless the feed gave a non-empty frame
get_options_chain_data(feed) ==
    IF feed = None THEN None
    ELSE IF get_options_data_df(feed.v) = <<>> THEN None
    ELSE Value(get_options_data_df(feed.v))

\* the 'moneyness' of a record of the live branch
NSELiveMoneyness(strike, option_type, spot) ==
    IF Abs(strike - spot) < NSEATMWindow THEN "ATM"
    ELSE IF (option_type = "CALL" /\ strike < spot) \/ (option_type = "PUT" /\ strike > spot)
    THEN "ITM"
    ELSE "OTM"

\* the live branch: one record per row of the feed, in the order of the feed
nse_live_chain(rows, spot) ==
    [n \in DOMAIN rows |->
        [strike |-> rows[n].strike, option_type |-> rows[n].option_type, spot_price |-> spot,
         moneyness |-> NSELiveMoneyness(rows[n].strike, rows[n].option_type, spot)]]

\* a strike list that starts one step too high
ShiftedStrikesMutant(spot, num_strikes, atm_only) ==
    LET atm_strike == BaseStrike(spot)
        strike_range == num_strikes \div 2
    IN  IF atm_only THEN <<atm_strike>>
        ELSE [n \in 1..num_strikes |-> atm_strike + (n - strike_range) * ChainStrikeStep]

\* the strikes of the synthetic branch
nse_strikes(spot, num_strikes, atm_only) ==
    LET atm_strike == BaseStrike(spot)
        strike_range == num_strikes \div 2
    IN  IF atm_only THEN <<atm_strike>>
        ELSE [n \in 1..num_strikes |-> atm_strike + ((n - 1) - strike_range) * ChainStrikeStep]

\* the locals call_moneyness and put_moneyness before their first assignment
UnboundLabels == [call |-> "unbound", put |-> "unbound"]

RECURSIVE NSESyntheticLoop(_, _, _, _, _)
\* the loop over the strikes of the synthetic branch.  Inside the window only 'moneyness'
\* is assigned, so call_moneyness and put_moneyness keep what an earlier strike gave
\* them; a record off the base strike reads them, which is an UnboundLocalError when no
\* earlier strike assigned them
NSESyntheticLoop(results, rest, spot, atm_strike, labels) ==
    IF rest = <<>> THEN results
    ELSE LET strike == Head(rest)
             now == IF Abs(strike - spot) < NSEATMWindow THEN labels
                    ELSE IF strike < spot THEN [call |-> "ITM", put |-> "OTM"]
                    ELSE [call |-> "OTM", put |-> "ITM"]
         IN  IF strike # atm_strike /\ now = UnboundLabels
             THEN RaisedChain("UnboundLocalError")
             ELSE NSESyntheticLoop(
                      results \o
                          <<[strike |-> strike, option_type |-> "CALL", spot_price |-> spot,
                             moneyness |-> IF strike # atm_strike THEN now.call ELSE "ATM"],
                            [strike |-> strike, option_type |-> "PUT", spot_price |-> spot,
                             moneyness |-> IF strike # atm_strike THEN now.put ELSE "ATM"]>>,
                      Tail(rest), spot, atm_strike, now)

\* NiftyOptionsChain.generate_options_chain of nse_nifty_greeks.py (the fields the claims
\* read); num_strikes and atm_only are read by the synthetic branch only
nse_generate_options_chain(spot, num_strikes, atm_only, feed) ==
    LET nse_rows == get_options_chain_data(feed)
    IN  IF nse_rows # None THEN nse_live_chain(nse_rows.v, spot)
        ELSE NSESyntheticLoop(<<>>, nse_strikes(spot, num_strikes, atm_only), spot,
                              BaseStrike(spot), UnboundLabels)

NSEGenerateOptionsChainBuild ==
    /\ chain = NoChain
    /\ chain' = nse_generate_options_chain(chain_request.spot_price,
                    chain_request.num_strikes, chain_request.atm_only, nse_options)
    /\ UNCHANGED <<chain_request, chain_analysis, nse_options, strike_list, nonChainVars>>

InitNSEChain ==
    /\ chain_request \in [spot_price : ChainSpots, num_strikes : NumStrikesChoices,
                          atm_only : BOOLEAN]
    /\ nse_options \in NSEFeeds
    /\ chain = NoChain
    /\ chain_analysis = NoResult
    /\ strike_list = NoStrikes
    /\ OIIdle
    /\ FetchIdle
    /\ NumericsIdle
    /\ EnhancerIdle
    /\ ExpiryIdle
    /\ RequestIdle
    /\ ConnectorIdle

NextNSEChain ==
    \/ NSEGenerateOptionsChainBuild

SpecNSEChain == InitNSEChain /\ [][NextNSEChain]_vars

----------------------------------------------------------------------------
(* The strike lists of the four chain builders *)

\* range(-15, 16) of the builders with a fixed count
FixedHalfWidth == 15

\* int(current_nifty // 50) * 50 of app.py: the multiple of 50 at or below the level
app_base_strike(current_nifty) == (current_nifty \div ChainStrikeStep) * ChainStrikeStep

FixedStrikes(base_strike) ==
    [n \in 1..(2 * FixedHalfWidth + 1) |-> base_strike + (n - 1 - FixedHalfWidth) * ChainStrikeStep]

\* NiftyOptionsChain.generate_strike_prices of yahoo_nifty_greeks.py
YahooGenerateStrikePrices ==
    /\ strike_list = NoStrikes
    /\ strike_list' = [builder |-> "yahoo", base_strike |-> BaseStrike(chain_request.spot_price),
                   strikes |-> generate_strike_prices(chain_request.spot_price,
                                   chain_request.num_strikes, chain_request.atm_only)]
    /\ UNCHANGED <<chain_request, chain, chain_analysis, nse_options, nonChainVars>>

\* the synthetic branch of generate_options_chain of nse_nifty_greeks.py: its strike
\* list, and the chain (or the exception) the loop over the list ends with
NSEGenerateSyntheticChain ==
    /\ strike_list = NoStrikes
    /\ get_options_chain_data(nse_options) = None
    /\ strike_list' = [builder |-> "nse", base_strike |-> BaseStrike(chain_request.spot_price),
                   strikes |-> nse_strikes(chain_request.spot_price,
                                   chain_request.num_strikes, chain_request.atm_only)]
    /\ chain' = nse_generate_options_chain(chain_request.spot_price,
                    chain_request.num_strikes, chain_request.atm_only, nse_options)
    /\ UNCHANGED <<chain_request, chain_analysis, nse_options, nonChainVars>>

\* EnhancedNiftyDataFetcher.get_nifty_options_chain of nifty_greeks_calculator.py
AdvancedGetNiftyOptionsChain ==
    /\ strike_list = NoStrikes
    /\ strike_list' = [builder |-> "advanced",
                   base_strike |-> BaseStrike(chain_request.spot_price),
                   strikes |-> FixedStrikes(BaseStrike(chain_request.spot_price))]
    /\ UNCHANGED <<chain_request, chain, chain_analysis, nse_options, nonChainVars>>

\* AngelOneConnector.get_mock_angel_one_data of app.py (the strikes its loop visits)
AppGetMockAngelOneData ==
    /\ strike_list = NoStrikes
    /\ strike_list' = [builder |-> "app",
                   base_strike |-> app_base_strike(chain_request.spot_price),
                   strikes |-> FixedStrikes(app_base_strike(chain_request.spot_price))]
    /\ UNCHANGED <<chain_request, chain, chain_analysis, nse_options, nonChainVars>>

InitStrikes ==
    /\ chain_request \in [spot_price : ChainSpots, num_strikes : NumStrikesChoices,
                          atm_only : BOOLEAN]
    /\ nse_options = None
    /\ chain = NoChain
    /\ chain_analysis = NoResult
    /\ strike_list = NoStrikes
    /\ OIIdle
    /\ FetchIdle
    /\ NumericsIdle
    /\ EnhancerIdle
    /\ ExpiryIdle
    /\ RequestIdle
    /\ ConnectorIdle

NextStrikes ==
    \/ YahooGenerateStrikePrices
    \/ NSEGenerateSyntheticChain
    \/ AdvancedGetNiftyOptionsChain
    \/ AppGetMockAngelOneData

SpecStrikes == InitStrikes /\ [][NextStrikes]_vars

----------------------------------------------------------------------------
(* Market data collaborators: the spot price feed and the volatility source *)

\* the fallback price of NSEFinanceAPI.get_nifty_price
FallbackPrice == 24500

\* the fallback spot of the /api/oi-chart-data handler
OIChartFallbackSpot == 24350

\* the default volatility, in percent
DefaultVolatility == 15

MaxFeedPrices == 2

\* what the spot feed can answer: nothing, an exception, or a price (0 included)
FeedPrices == {0} \cup {24300 + 50 * k : k \in 1..MaxFeedPrices}

FeedSpots == {None, Raises} \cup {Value(v) : v \in FeedPrices}

\* what the volatility source can answer, in percent
FeedVolatilities == {None, Raises, Value(12), Value(20)}

\* the optional spot_price and volatility parameters of a request
RequestSpots == {None, Value(24400)}

RequestVolatilities == {None, Value(18)}

\* Python truthiness of an optional float: None and 0.0 are false
Truthy(x) == x.kind = "value" /\ x.v # 0

\* NSEDataFetcher.get_nifty_spot_price: the price, or None on any failure
nse_fetcher_get_nifty_spot_price(feed) ==
    IF feed.kind = "value" THEN feed ELSE None

\* NSEFinanceAPI.get_nifty_price: a missing price becomes the fallback price
NSEGetNiftyPrice(feed) ==
    LET price == nse_fetcher_get_nifty_spot_price(feed)
    IN  IF Truthy(price) THEN price ELSE Value(FallbackPrice)

\* YahooFinanceAPI.get_nifty_price: the price, or None on any failure
YahooGetNiftyPrice(feed) ==
    IF feed.kind = "value" THEN feed ELSE None

\* calculate_historical_volatility of both API clients: the default on any failure
CalculateHistoricalVolatility(hist) ==
    IF hist.kind = "value" THEN hist ELSE Value(DefaultVolatility)

Refused(op, error) == [op |-> op, outcome |-> "refused", error |-> error]

Computed(op, spot, vol) == [op |-> op, outcome |-> "computed", spot_price |-> spot, volatility |-> vol]

\* NiftyOptionsChain.generate_options_chain of yahoo_nifty_greeks.py, up to its inputs
YahooGenerateOptionsChain ==
    /\ fetch_result.op = "none"
    /\ LET spot == IF fetch_request.spot_price = None
                   THEN YahooGetNiftyPrice(upstream.spot)
                   ELSE fetch_request.spot_price
           vol == IF fetch_request.volatility = None
                  THEN CalculateHistoricalVolatility(upstream.hist)
                  ELSE fetch_request.volatility
       IN  fetch_result' =
               IF spot = None THEN Refused("yahoo_chain", "ValueError")
               ELSE Computed("yahoo_chain", spot.v, vol.v)
    /\ UNCHANGED <<upstream, fetch_request, nonFetchVars>>

\* NiftyOptionsChain.generate_options_chain of nse_nifty_greeks.py, up to its inputs
NSEGenerateOptionsChain ==
    /\ fetch_result.op = "none"
    /\ LET spot == IF fetch_request.spot_price = None
                   THEN NSEGetNiftyPrice(upstream.spot)
                   ELSE fetch_request.spot_price
           vol == IF fetch_request.volatility = None
                  THEN CalculateHistoricalVolatility(upstream.hist)
                  ELSE fetch_request.volatility
       IN  fetch_result' = Computed("nse_chain", spot.v, vol.v)
    /\ UNCHANGED <<upstream, fetch_request, nonFetchVars>>

\* the /api/oi-chart-data handler of fastapi_nse.py, up to its inputs
GetOIChartData ==
    /\ fetch_result.op = "none"
    /\ LET fetched == NSEGetNiftyPrice(upstream.spot)
           spot == IF ~Truthy(fetched) THEN Value(OIChartFallbackSpot) ELSE fetched
       IN  fetch_result' = Computed("oi_chart_data", spot.v, 20)
    /\ UNCHANGED <<upstream, fetch_request, nonFetchVars>>

\* the /api/portfolio-greeks handler of fastapi_nse.py, up to its inputs
NSEPortfolioGreeksSpot ==
    /\ fetch_result.op = "none"
    /\ LET spot == IF fetch_request.spot_price = None
                   THEN NSEGetNiftyPrice(upstream.spot)
                   ELSE fetch_request.spot_price
       IN  fetch_result' =
               IF spot = None THEN Refused("nse_portfolio", "HTTP 503")
               ELSE Computed("nse_portfolio", spot.v, 0)
    /\ UNCHANGED <<upstream, fetch_request, nonFetchVars>>

InitFetch ==
    /\ upstream \in [spot : FeedSpots, hist : FeedVolatilities]
    /\ fetch_request \in [spot_price : RequestSpots, volatility : RequestVolatilities]
    /\ fetch_result = NoResult
    /\ OIIdle
    /\ ChainIdle
    /\ NumericsIdle
    /\ EnhancerIdle
    /\ ExpiryIdle
    /\ RequestIdle
    /\ ConnectorIdle

NextFetch ==
    \/ YahooGenerateOptionsChain
    \/ NSEGenerateOptionsChain
    \/ GetOIChartData
    \/ NSEPortfolioGreeksSpot

SpecFetch == InitFetch /\ [][NextFetch]_vars

----------------------------------------------------------------------------
(* Specification of the OI analytics *)

InitOI ==
    /\ oi_data \in OIInputs
    /\ oi_spot \in OISpots
    /\ analytics = NoResult
    /\ FetchIdle
    /\ ChainIdle
    /\ NumericsIdle
    /\ EnhancerIdle
    /\ ExpiryIdle
    /\ RequestIdle
    /\ ConnectorIdle

NextOI ==
    \/ CalculateMaxPain
    \/ IdentifySupportResistance
    \/ GenerateOIChartData
    \/ CalculateComprehensiveAnalytics
    \/ AnalyzeOptionChain

SpecOI == InitOI /\ [][NextOI]_vars

----------------------------------------------------------------------------
(* Floating-point values: a finite number in fixed point, or NaN *)

NaN == [nan |-> TRUE, v |-> 0]

Num(x) == [nan |-> FALSE, v |-> x]

\* Python's max(x, 0): x unless 0 > x, and no comparison with NaN is true
MaxWithZero(x) == IF x.nan THEN NaN ELSE IF 0 > x.v THEN Num(0) ELSE x

\* x * q for an integer q
Times(x, q) == IF x.nan THEN NaN ELSE Num(x.v * q)

Plus(x, y) == IF x.nan \/ y.nan THEN NaN ELSE Num(x.v + y.v)

\* how a call ended: it returned a value or raised an exception
Returned(value) == [kind |-> "return", value |-> value]

Raised(error) == [kind |-> "raise", error |-> error]

----------------------------------------------------------------------------
(* The pricing and Greeks functions.  GreeksCalculator is the class of     *)
(* yahoo_nifty_greeks.py and, line for line, of nse_nifty_greeks.py;       *)
(* AdvancedGreeksCalculator is the class of nifty_greeks_calculator.py,    *)
(* called with its default dividend yield q = 0.  T is days / 365, sigma   *)
(* is in percent, the rate r is 0.065.                                     *)

PricingSpots == {-24350, 0, 24350}

PricingStrikes == {-24300, 0, 24300, 24400}

PricingDays == {0, 30}

PricingSigmas == {-20, 0, 20}

SideTags == {"call", "put", "CALL", "PUT", "xyz"}

Calculators == {"GreeksCalculator", "AdvancedGreeksCalculator"}

\* the values of the closed-form expressions in d1 and d2 for T > 0, before max(., 0)
\* and before rounding, where the ratio S / K is defined and not negative
ClosedForm ==
    <<-24350, -24300, 30, -20>> :>
        [call_price |-> Num(46974), put_price |-> Num(64922),
         call_delta |-> Num(437350), put_delta |-> Num(-562650),
         gamma |-> Num(28221), vega |-> Num(-27505747),
         call_theta |-> Num(-7188450), put_theta |-> Num(-11492790),
         call_rho |-> Num(-9139072), put_rho |-> Num(10727112),
         vomma |-> Num(2176404), vanna |-> Num(-197704)] @@
    <<-24350, -24300, 30, 0>> :>
        [call_price |-> Num(-17948), put_price |-> Num(0),
         call_delta |-> Num(1000000), put_delta |-> Num(0),
         gamma |-> NaN, vega |-> Num(0),
         call_theta |-> Num(4304340), put_theta |-> Num(0),
         call_rho |-> Num(-19866184), put_rho |-> Num(0),
         vomma |-> NaN, vanna |-> NaN] @@
    <<-24350, -24300, 30, 20>> :>
        [call_price |-> Num(-64922), put_price |-> Num(-46974),
         call_delta |-> Num(562650), put_delta |-> Num(-437350),
         gamma |-> Num(-28221), vega |-> Num(-27505747),
         call_theta |-> Num(11492790), put_theta |-> Num(7188450),
         call_rho |-> Num(-10727112), put_rho |-> Num(9139072),
         vomma |-> Num(-2176404), vanna |-> Num(-197704)] @@
    <<0, -24300, 30, -20>> :>
        [call_price |-> Num(2417052), put_price |-> Num(0),
         call_delta |-> Num(1000000), put_delta |-> Num(0),
         gamma |-> NaN, vega |-> Num(0),
         call_theta |-> Num(4304340), put_theta |-> Num(0),
         call_rho |-> Num(-19866184), put_rho |-> Num(0),
         vomma |-> NaN, vanna |-> NaN] @@
    <<0, -24300, 30, 0>> :>
        [call_price |-> Num(0), put_price |-> Num(-2417052),
         call_delta |-> Num(0), put_delta |-> Num(-1000000),
         gamma |-> NaN, vega |-> Num(0),
         call_theta |-> Num(0), put_theta |-> Num(-4304340),
         call_rho |-> Num(0), put_rho |-> Num(19866184),
         vomma |-> NaN, vanna |-> NaN] @@
    <<0, -24300, 30, 20>> :>
        [call_price |-> Num(0), put_price |-> Num(-2417052),
         call_delta |-> Num(0), put_delta |-> Num(-1000000),
         gamma |-> NaN, vega |-> Num(0),
         call_theta |-> Num(0), put_theta |-> Num(-4304340),
         call_rho |-> Num(0), put_rho |-> Num(19866184),
         vomma |-> NaN, vanna |-> NaN] @@
    <<0, 24300, 30, -20>> :>
        [call_price |-> Num(-2417052), put_price |-> Num(0),
         call_delta |-> Num(1000000), put_delta |-> Num(0),
         gamma |-> NaN, vega |-> Num(0),
         call_theta |-> Num(-4304340), put_theta |-> Num(0),
         call_rho |-> Num(19866184), put_rho |-> Num(0),
         vomma |-> NaN, vanna |-> NaN] @@
    <<0, 24300, 30, 0>> :>
        [call_price |-> Num(0), put_price |-> Num(2417052),
         call_delta |-> Num(0), put_delta |-> Num(-1000000),
         gamma |-> NaN, vega |-> Num(0),
         call_theta |-> Num(0), put_theta |-> Num(4304340),
         call_rho |-> Num(0), put_rho |-> Num(-19866184),
         vomma |-> NaN, vanna |-> NaN] @@
    <<0, 24300, 30, 20>> :>
        [call_price |-> Num(0), put_price |-> Num(2417052),
         call_delta |-> Num(0), put_delta |-> Num(-1000000),
         gamma |-> NaN, vega |-> Num(0),
         call_theta |-> Num(0), put_theta |-> Num(4304340),
         call_rho |-> Num(0), put_rho |-> Num(-19866184),
         vomma |-> NaN, vanna |-> NaN] @@
    <<0, 24400, 30, -20>> :>
        [call_price |-> Num(-2426999), put_price |-> Num(0),
         call_delta |-> Num(1000000), put_delta |-> Num(0),
         gamma |-> NaN, vega |-> Num(0),
         call_theta |-> Num(-4322053), put_theta |-> Num(0),
         call_rho |-> Num(19947938), put_rho |-> Num(0),
         vomma |-> NaN, vanna |-> NaN] @@
    <<0, 24400, 30, 0>> :>
        [call_price |-> Num(0), put_price |-> Num(2426999),
         call_delta |-> Num(0), put_delta |-> Num(-1000000),
         gamma |-> NaN, vega |-> Num(0),
         call_theta |-> Num(0), put_theta |-> Num(4322053),
         call_rho |-> Num(0), put_rho |-> Num(-19947938),
         vomma |-> NaN, vanna |-> NaN] @@
    <<0, 24400, 30, 20>> :>
        [call_price |-> Num(0), put_price |-> Num(2426999),
         call_delta |-> Num(0), put_delta |-> Num(-1000000),
         gamma |-> NaN, vega |-> Num(0),
         call_theta |-> Num(0), put_theta |-> Num(4322053),
         call_rho |-> Num(0), put_rho |-> Num(-19947938),
         vomma |-> NaN, vanna |-> NaN] @@
    <<24350, 24300, 30, -20>> :>
        [call_price |-> Num(-46974), put_price |-> Num(-64922),
         call_delta |-> Num(437350), put_delta |-> Num(-562650),
         gamma |-> Num(-28221), vega |-> Num(27505747),
         call_theta |-> Num(7188450), put_theta |-> Num(11492790),
         call_rho |-> Num(9139072), put_rho |-> Num(-10727112),
         vomma |-> Num(-2176404), vanna |-> Num(-197704)] @@
    <<24350, 24300, 30, 0>> :>
        [call_price |-> Num(17948), put_price |-> Num(0),
         call_delta |-> Num(1000000), put_delta |-> Num(0),
         gamma |-> NaN, vega |-> Num(0),
         call_theta |-> Num(-4304340), put_theta |-> Num(0),
         call_rho |-> Num(19866184), put_rho |-> Num(0),
         vomma |-> NaN, vanna |-> NaN] @@
    <<24350, 24300, 30, 20>> :>
        [call_price |-> Num(64922), put_price |-> Num(46974),
         call_delta |-> Num(562650), put_delta |-> Num(-437350),
         gamma |-> Num(28221), vega |-> Num(27505747),
         call_theta |-> Num(-11492790), put_theta |-> Num(-7188450),
         call_rho |-> Num(10727112), put_rho |-> Num(-9139072),
         vomma |-> Num(2176404), vanna |-> Num(-197704)] @@
    <<24350, 24400, 30, -20>> :>
        [call_price |-> Num(-51692), put_price |-> Num(-59693),
         call_delta |-> Num(465706), put_delta |-> Num(-534294),
         gamma |-> Num(-28468), vega |-> Num(27746911),
         call_theta |-> Num(7137475), put_theta |-> Num(11459529),
         call_rho |-> Num(9745362), put_rho |-> Num(-10202576),
         vomma |-> Num(-343060), vanna |-> Num(-57097)] @@
    <<24350, 24400, 30, 0>> :>
        [call_price |-> Num(8001), put_price |-> Num(0),
         call_delta |-> Num(1000000), put_delta |-> Num(0),
         gamma |-> NaN, vega |-> Num(0),
         call_theta |-> Num(-4322053), put_theta |-> Num(0),
         call_rho |-> Num(19947938), put_rho |-> Num(0),
         vomma |-> NaN, vanna |-> NaN] @@
    <<24350, 24400, 30, 20>> :>
        [call_price |-> Num(59693), put_price |-> Num(51692),
         call_delta |-> Num(534294), put_delta |-> Num(-465706),
         gamma |-> Num(28468), vega |-> Num(27746911),
         call_theta |-> Num(-11459529), put_theta |-> Num(-7137475),
         call_rho |-> Num(10202576), put_rho |-> Num(-9745362),
         vomma |-> Num(343060), vanna |-> Num(-57097)]

AllNaN ==
    [call_price |-> NaN, put_price |-> NaN, call_delta |-> NaN, put_delta |-> NaN,
     gamma |-> NaN, vega |-> NaN, call_theta |-> NaN, put_theta |-> NaN,
     call_rho |-> NaN, put_rho |-> NaN, vomma |-> NaN, vanna |-> NaN]

\* d1 = (np.log(S / K) + ...) / (sigma * np.sqrt(T)) and what is computed from it: np.log
\* of a negative ratio is NaN, and NaN propagates through every expression
ClosedFormTerms(S, K, days, sigma) ==
    IF (S < 0 /\ K > 0) \/ (S > 0 /\ K < 0) THEN AllNaN
    ELSE ClosedForm[<<S, K, days, sigma>>]

\* max(a - b, 0) on plain numbers, as a price
Intrinsic(a, b) == Num(100 * (IF a - b > 0 THEN a - b ELSE 0))

GreeksCalculator_black_scholes_call(S, K, days, sigma) ==
    IF days <= 0 THEN Returned(Intrinsic(S, K))
    ELSE IF K = 0 THEN Raised("ZeroDivisionError")
    ELSE Returned(MaxWithZero(ClosedFormTerms(S, K, days, sigma).call_price))

GreeksCalculator_black_scholes_put(S, K, days, sigma) ==
    IF days <= 0 THEN Returned(Intrinsic(K, S))
    ELSE IF K = 0 THEN Raised("ZeroDivisionError")
    ELSE Returned(MaxWithZero(ClosedFormTerms(S, K, days, sigma).put_price))

\* the Greeks of an expired option: the given delta and zeros
ExpiredGreeks(delta) ==
    [delta |-> Num(delta), gamma |-> Num(0), theta |-> Num(0), vega |-> Num(0),
     rho |-> Num(0)]

GreeksCalculator_calculate_greeks(S, K, days, sigma, option_type) ==
    IF days <= 0
    THEN Returned(ExpiredGreeks(IF option_type = "call" /\ S > K THEN 1000000
                                ELSE IF option_type = "put" /\ S < K THEN -1000000
                                ELSE 0))
    ELSE IF K = 0 THEN Raised("ZeroDivisionError")
    ELSE LET t == ClosedFormTerms(S, K, days, sigma)
             call == Lower(option_type) = "call"
         IN  Returned([delta |-> IF call THEN t.call_delta ELSE t.put_delta,
                       gamma |-> t.gamma,
                       theta |-> IF call THEN t.call_theta ELSE t.put_theta,
                       vega |-> t.vega,
                       rho |-> IF call THEN t.call_rho ELSE t.put_rho])

\* the try / except of AdvancedGreeksCalculator turns the ZeroDivisionError of S / K
\* into the intrinsic value
AdvancedGreeksCalculator_black_scholes_call(S, K, days, sigma) ==
    IF days <= 0 THEN Returned(Intrinsic(S, K))
    ELSE IF K = 0 THEN Returned(Intrinsic(S, K))
    ELSE Returned(MaxWithZero(ClosedFormTerms(S, K, days, sigma).call_price))

AdvancedGreeksCalculator_black_scholes_put(S, K, days, sigma) ==
    IF days <= 0 THEN Returned(Intrinsic(K, S))
    ELSE IF K = 0 THEN Returned(Intrinsic(K, S))
    ELSE Returned(MaxWithZero(ClosedFormTerms(S, K, days, sigma).put_price))

AdvancedExpiredGreeks(delta) ==
    [delta |-> Num(delta), gamma |-> Num(0), theta |-> Num(0), vega |-> Num(0),
     rho |-> Num(0), vomma |-> Num(0), vanna |-> Num(0)]

AdvancedGreeksCalculator_calculate_greeks(S, K, days, sigma, option_type) ==
    IF days <= 0
    THEN IF Lower(option_type) = "call"
         THEN Returned(AdvancedExpiredGreeks(IF S > K THEN 1000000 ELSE 0))
         ELSE Returned(AdvancedExpiredGreeks(IF S < K THEN -1000000 ELSE 0))
    ELSE IF K = 0 THEN Returned(AdvancedExpiredGreeks(0))
    ELSE LET t == ClosedFormTerms(S, K, days, sigma)
             call == Lower(option_type) = "call"
         IN  Returned([delta |-> IF call THEN t.call_delta ELSE t.put_delta,
                       gamma |-> t.gamma,
                       theta |-> IF call THEN t.call_theta ELSE t.put_theta,
                       vega |-> t.vega,
                       rho |-> IF call THEN t.call_rho ELSE t.put_rho,
                       vomma |-> t.vomma,
                       vanna |-> t.vanna])

black_scholes_call(calc, S, K, days, sigma) ==
    IF calc = "GreeksCalculator" THEN GreeksCalculator_black_scholes_call(S, K, days, sigma)
    ELSE AdvancedGreeksCalculator_black_scholes_call(S, K, days, sigma)

black_scholes_put(calc, S, K, days, sigma) ==
    IF calc = "GreeksCalculator" THEN GreeksCalculator_black_scholes_put(S, K, days, sigma)
    ELSE AdvancedGreeksCalculator_black_scholes_put(S, K, days, sigma)

calculate_greeks(calc, S, K, days, sigma, option_type) ==
    IF calc = "GreeksCalculator"
    THEN GreeksCalculator_calculate_greeks(S, K, days, sigma, option_type)
    ELSE AdvancedGreeksCalculator_calculate_greeks(S, K, days, sigma, option_type)

BlackScholesCall ==
    /\ pricing_result.op = "none"
    /\ LET q == pricing_request
       IN  pricing_result' = [op |-> "black_scholes_call",
                              out |-> black_scholes_call(q.calc, q.S, q.K, q.days, q.sigma)]
    /\ UNCHANGED <<pricing_request, nonPricingVars>>

BlackScholesPut ==
    /\ pricing_result.op = "none"
    /\ LET q == pricing_request
       IN  pricing_result' = [op |-> "black_scholes_put",
                              out |-> black_scholes_put(q.calc, q.S, q.K, q.days, q.sigma)]
    /\ UNCHANGED <<pricing_request, nonPricingVars>>

CalculateGreeks ==
    /\ pricing_result.op = "none"
    /\ LET q == pricing_request
       IN  pricing_result' =
               [op |-> "calculate_greeks",
                out |-> calculate_greeks(q.calc, q.S, q.K, q.days, q.sigma, q.option_type)]
    /\ UNCHANGED <<pricing_request, nonPricingVars>>

InitPricing ==
    /\ pricing_request \in [calc : Calculators, S : PricingSpots, K : PricingStrikes,
                            days : PricingDays, sigma : PricingSigmas,
                            option_type : SideTags]
    /\ pricing_result = NoResult
    /\ OIIdle
    /\ FetchIdle
    /\ ChainIdle
    /\ EnhancerIdle
    /\ PortfolioIdle
    /\ IVIdle
    /\ ExpiryIdle
    /\ RequestIdle
    /\ ConnectorIdle

NextPricing ==
    \/ BlackScholesCall
    \/ BlackScholesPut
    \/ CalculateGreeks

SpecPricing == InitPricing /\ [][NextPricing]_vars

----------------------------------------------------------------------------
(* Portfolio aggregation.  A position is the dict the caller sends: strike  *)
(* (None when the key is absent), quantity, option_type, days_to_expiry and *)
(* volatility (percent).  Every result carries its totals as                *)
(* [delta, gamma, theta, vega, rho, value], whatever keys the variant uses. *)

MaxPositions == 3

PositionStrikes == {None, Value(0), Value(-24300), Value(24300), Value(24400)}

PositionQuantities == {-1, 2}

PositionRecords ==
    [strike : PositionStrikes, quantity : PositionQuantities, option_type : {"call", "put"},
     days_to_expiry : {30}, volatility : {20}]

PositionLists == UNION {[1..n -> PositionRecords] : n \in 0..MaxPositions}

PortfolioSpots == {24350}

\* str.upper() on the lower-case side tags
Upper(tag) ==
    CASE tag = "call" -> "CALL"
      [] tag = "put" -> "PUT"
      [] OTHER -> tag

\* round(x, n) of a float: to the multiple of unit nearest to x, NaN stays NaN
RoundNum(x, unit) == IF x.nan THEN NaN ELSE Num(RoundHalfEven(x.v, unit) * unit)

ZeroTotals ==
    [delta |-> Num(0), gamma |-> Num(0), theta |-> Num(0), vega |-> Num(0), rho |-> Num(0),
     value |-> Num(0)]

\* totals += the position's price and Greeks times its quantity
AddPosition(totals, price, greeks, quantity) ==
    [delta |-> Plus(totals.delta, Times(greeks.delta, quantity)),
     gamma |-> Plus(totals.gamma, Times(greeks.gamma, quantity)),
     theta |-> Plus(totals.theta, Times(greeks.theta, quantity)),
     vega |-> Plus(totals.vega, Times(greeks.vega, quantity)),
     rho |-> Plus(totals.rho, Times(greeks.rho, quantity)),
     value |-> Plus(totals.value, Times(price, quantity))]

\* round(total, 6) on every total: only gamma, kept to 8 places, loses digits
RoundTotals6(totals) == [totals EXCEPT !.gamma = RoundNum(totals.gamma, 100)]

\* the price and the Greeks of one position as the calculator calc computes them
PositionPrice(calc, pos, spot) ==
    IF Lower(pos.option_type) = "call"
    THEN black_scholes_call(calc, spot, pos.strike.v, pos.days_to_expiry, pos.volatility)
    ELSE black_scholes_put(calc, spot, pos.strike.v, pos.days_to_expiry, pos.volatility)

PositionGreeks(calc, pos, spot) ==
    calculate_greeks(calc, spot, pos.strike.v, pos.days_to_expiry, pos.volatility,
                     Lower(pos.option_type))

\* the body of the try block of the yahoo loop raises: pos['strike'] is a KeyError, or a
\* calculator call raises
YahooPositionRaises(pos, spot) ==
    \/ pos.strike = None
    \/ PositionPrice("GreeksCalculator", pos, spot).kind = "raise"
    \/ PositionGreeks("GreeksCalculator", pos, spot).kind = "raise"

YahooPositionDetail(pos, spot) ==
    LET price == PositionPrice("GreeksCalculator", pos, spot).value
        greeks == PositionGreeks("GreeksCalculator", pos, spot).value
    IN  [strike |-> pos.strike.v,
         option_type |-> Upper(Lower(pos.option_type)),
         quantity |-> pos.quantity,
         option_price |-> price,
         position_value |-> Times(price, pos.quantity),
         delta |-> Times(greeks.delta, pos.quantity),
         gamma |-> Times(greeks.gamma, pos.quantity),
         theta |-> Times(greeks.theta, pos.quantity),
         vega |-> Times(greeks.vega, pos.quantity),
         rho |-> Times(greeks.rho, pos.quantity)]

RECURSIVE YahooLoop(_, _, _)
\* the for loop of calculate_portfolio_greeks: a position whose body raises is logged
\* and skipped (except Exception: continue)
YahooLoop(acc, rest, spot) ==
    IF rest = <<>> THEN acc
    ELSE LET pos == Head(rest)
         IN  IF YahooPositionRaises(pos, spot) THEN YahooLoop(acc, Tail(rest), spot)
             ELSE YahooLoop(
                      [totals |-> AddPosition(acc.totals,
                                              PositionPrice("GreeksCalculator", pos, spot).value,
                                              PositionGreeks("GreeksCalculator", pos, spot).value,
                                              pos.quantity),
                       position_details |-> Append(acc.position_details,
                                                   YahooPositionDetail(pos, spot))],
                      Tail(rest), spot)

\* PortfolioGreeksCalculator.calculate_portfolio_greeks of yahoo_nifty_greeks.py
yahoo_calculate_portfolio_greeks(pos_list, spot) ==
    LET done == YahooLoop([totals |-> ZeroTotals, position_details |-> <<>>], pos_list, spot)
    IN  [op |-> "yahoo_portfolio",
         success |-> TRUE,
         totals |-> RoundTotals6(done.totals),
         total_positions |-> Len(pos_list),
         position_details |-> done.position_details,
         spot_price |-> spot]

YahooCalculatePortfolioGreeks ==
    /\ portfolio_result.op = "none"
    /\ portfolio_result' = yahoo_calculate_portfolio_greeks(positions, portfolio_spot)
    /\ UNCHANGED <<positions, portfolio_spot, nonPortfolioVars>>

\* dict.get(key, default) on a position
Get(pos, key, default) == IF key \in DOMAIN pos THEN pos[key] ELSE default

RECURSIVE NSELoop(_, _)
\* the loop of the NSE variant: it prices nothing, it reads the Greeks and the price off
\* the position dict, 0 when the key is absent
NSELoop(totals, rest) ==
    IF rest = <<>> THEN totals
    ELSE LET pos == Head(rest)
             quantity == Get(pos, "quantity", 0)
         IN  NSELoop([delta |-> Plus(totals.delta, Num(quantity * Get(pos, "delta", 0))),
                      gamma |-> Plus(totals.gamma, Num(quantity * Get(pos, "gamma", 0))),
                      theta |-> Plus(totals.theta, Num(quantity * Get(pos, "theta", 0))),
                      vega |-> Plus(totals.vega, Num(quantity * Get(pos, "vega", 0))),
                      rho |-> Plus(totals.rho, Num(quantity * Get(pos, "rho", 0))),
                      value |-> Plus(totals.value, Num(quantity * Get(pos, "price", 0)))],
                     Tail(rest))

\* PortfolioGreeksCalculator.calculate_portfolio_greeks of nse_nifty_greeks.py
nse_calculate_portfolio_greeks(pos_list, spot) ==
    LET totals == NSELoop(ZeroTotals, pos_list)
    IN  [op |-> "nse_portfolio",
         success |-> TRUE,
         totals |-> [delta |-> RoundNum(totals.delta, 100),
                     gamma |-> RoundNum(totals.gamma, 100),
                     theta |-> RoundNum(totals.theta, 100),
                     vega |-> RoundNum(totals.vega, 100),
                     rho |-> RoundNum(totals.rho, 100),
                     value |-> totals.value],
         num_positions |-> Len(pos_list),
         spot_price |-> spot]

\* the /api/portfolio-greeks handler of fastapi_nse.py for a request that carries a spot
\* price; the Position model requires the strike, so every position has one
NSECalculatePortfolioGreeks ==
    /\ portfolio_result.op = "none"
    /\ \A i \in DOMAIN positions : positions[i].strike # None
    /\ portfolio_result' = nse_calculate_portfolio_greeks(positions, portfolio_spot)
    /\ UNCHANGED <<positions, portfolio_spot, nonPortfolioVars>>

RECURSIVE AppLoop(_, _, _)
\* the loop of app.py: no try around a position, AdvancedGreeksCalculator prices it
AppLoop(totals, rest, spot) ==
    IF rest = <<>> THEN totals
    ELSE LET pos == Head(rest)
         IN  AppLoop(AddPosition(totals,
                                 PositionPrice("AdvancedGreeksCalculator", pos, spot).value,
                                 PositionGreeks("AdvancedGreeksCalculator", pos, spot).value,
                                 pos.quantity),
                     Tail(rest), spot)

\* the /api/portfolio-greeks handler of app.py: position['strike'] of a position without
\* the key is a KeyError, which ends the call with status 500
app_calculate_portfolio_greeks(pos_list, spot) ==
    IF \E i \in DOMAIN pos_list : pos_list[i].strike = None
    THEN [op |-> "app_portfolio", success |-> FALSE, status |-> 500]
    ELSE [op |-> "app_portfolio",
          success |-> TRUE,
          totals |-> RoundTotals6(AppLoop(ZeroTotals, pos_list, spot)),
          positions_count |-> Len(pos_list),
          spot_price_used |-> spot]

AppCalculatePortfolioGreeks ==
    /\ portfolio_result.op = "none"
    /\ portfolio_result' = app_calculate_portfolio_greeks(positions, portfolio_spot)
    /\ UNCHANGED <<positions, portfolio_spot, nonPortfolioVars>>

InitPortfolio ==
    /\ positions \in PositionLists
    /\ portfolio_spot \in PortfolioSpots
    /\ portfolio_result = NoResult
    /\ OIIdle
    /\ FetchIdle
    /\ ChainIdle
    /\ EnhancerIdle
    /\ PricingIdle
    /\ IVIdle
    /\ ExpiryIdle
    /\ RequestIdle
    /\ ConnectorIdle

NextPortfolio ==
    \/ YahooCalculatePortfolioGreeks
    \/ NSECalculatePortfolioGreeks
    \/ AppCalculatePortfolioGreeks

SpecPortfolio == InitPortfolio /\ [][NextPortfolio]_vars

----------------------------------------------------------------------------
(* The implied-volatility solvers: Newton-Raphson on sigma.  sigma is in    *)
(* 1/1000, a price difference in 1/1000000, the raw vega in price units.    *)
(* What the pricing model answers at an iterate, the price difference and   *)
(* the vega, is an input of each iteration.  S and K are positive.          *)

max_iterations == 100

YahooInitialSigma == 200

YahooTolerance == 1

YahooSigmaFloor == 1

NSEInitialSigma == 300

NSETolerance == 10

NSESigmaReset == 10

AdvancedInitialSigma == 200

AdvancedTolerance == 1000

AdvancedSigmaFloor == 10

SigmaCeiling == 5000

IVCalculators == {"yahoo", "nse", "advanced"}

IVDays == {0, 30}

IVOptionPrices == {-5, 0, 100}

\* price - option_price at an iterate: met exactly, off by 0.000005, by 0.0005, by 150
PriceDiffs == {-150000000, 0, 5, 500, 150000000}

\* the raw vega at an iterate: exactly 0, positive below 1e-10, or a usual size
VegaChoices ==
    {[size |-> "zero", v |-> 0], [size |-> "tiny", v |-> 0], [size |-> "normal", v |-> 1500]}

\* a magnitude beyond every bound on sigma
OutOfRange == 1000000

\* sigma - price_diff / vega; a nonzero difference over a vega below 1e-10 is out of range
NewtonUpdate(sigma, price_diff, vega) ==
    IF vega.size = "normal" THEN sigma - (price_diff \div (1000 * vega.v))
    ELSE IF price_diff > 0 THEN sigma - OutOfRange
    ELSE sigma + OutOfRange

\* max(lo, min(x, hi))
Clamp(x, lo, hi) ==
    LET m == IF x < hi THEN x ELSE hi
    IN  IF lo > m THEN lo ELSE m

\* the solver's locals, and the last point at which it evaluated the price
IVState(pc, i, sigma, last) == [pc |-> pc, i |-> i, sigma |-> sigma, last |-> last]

NotEvaluated == [sigma |-> -1, price_diff |-> 0]

Evaluated(sigma, price_diff) == [sigma |-> sigma, price_diff |-> price_diff]

\* the solver returned out, leaving through exit: the guard, the tolerance test, the vega
\* test, or the end of the loop
IVReturn(out, exit) == [op |-> "implied_volatility", out |-> out, exit |-> exit]

IVDone(st, last) == IVState("done", st.i, st.sigma, last)

\* the entry of GreeksCalculator.calculate_implied_volatility of yahoo_nifty_greeks.py
yahoo_enter(req) ==
    IF req.days <= 0
    THEN [state |-> IVState("done", 0, 0, NotEvaluated), result |-> IVReturn(Value(0), "guard")]
    ELSE [state |-> IVState("loop", 0, YahooInitialSigma, NotEvaluated), result |-> NoResult]

\* one pass of its loop body
yahoo_iteration(st, price_diff, vega) ==
    LET last == Evaluated(st.sigma, price_diff)
    IN  IF vega.size # "normal"
        THEN [state |-> IVDone(st, last), result |-> IVReturn(Value(st.sigma), "vega")]
        ELSE IF Abs(price_diff) < YahooTolerance
        THEN [state |-> IVDone(st, last), result |-> IVReturn(Value(st.sigma), "converged")]
        ELSE [state |-> IVState("loop", st.i + 1,
                                Clamp(NewtonUpdate(st.sigma, price_diff, vega),
                                      YahooSigmaFloor, SigmaCeiling),
                                last),
              result |-> NoResult]

\* the return after its loop
yahoo_exhausted(st) ==
    [state |-> IVDone(st, st.last), result |-> IVReturn(Value(st.sigma), "cap")]

\* the entry of GreeksCalculator.calculate_implied_volatility of nse_nifty_greeks.py
nse_enter(req) ==
    IF req.days <= 0 \/ req.option_price <= 0
    THEN [state |-> IVState("done", 0, 0, NotEvaluated), result |-> IVReturn(None, "guard")]
    ELSE [state |-> IVState("loop", 0, NSEInitialSigma, NotEvaluated), result |-> NoResult]

nse_iteration(st, price_diff, vega) ==
    LET last == Evaluated(st.sigma, price_diff)
        updated == NewtonUpdate(st.sigma, price_diff, vega)
    IN  IF Abs(price_diff) < NSETolerance
        THEN [state |-> IVDone(st, last), result |-> IVReturn(Value(st.sigma), "converged")]
        ELSE IF vega.size # "normal"
        THEN [state |-> IVDone(st, last), result |-> IVReturn(None, "vega")]
        ELSE [state |-> IVState("loop", st.i + 1,
                                IF updated <= 0 THEN NSESigmaReset ELSE updated, last),
              result |-> NoResult]

nse_exhausted(st) == [state |-> IVDone(st, st.last), result |-> IVReturn(None, "cap")]

\* the entry of AdvancedGreeksCalculator.implied_volatility of nifty_greeks_calculator.py
advanced_enter(req) ==
    IF req.days <= 0 \/ req.option_price <= 0
    THEN [state |-> IVState("done", 0, 0, NotEvaluated), result |-> IVReturn(Value(0), "guard")]
    ELSE [state |-> IVState("loop", 0, AdvancedInitialSigma, NotEvaluated),
          result |-> NoResult]

\* max(sigma, 0.01), the value every exit after the guard returns
advanced_return(sigma) == Value(IF AdvancedSigmaFloor > sigma THEN AdvancedSigmaFloor ELSE sigma)

advanced_iteration(st, price_diff, vega) ==
    LET last == Evaluated(st.sigma, price_diff)
    IN  IF Abs(price_diff) < AdvancedTolerance
        THEN [state |-> IVDone(st, last),
              result |-> IVReturn(advanced_return(st.sigma), "converged")]
        ELSE IF vega.size = "zero"
        THEN [state |-> IVDone(st, last),
              result |-> IVReturn(advanced_return(st.sigma), "vega")]
        ELSE [state |-> IVState("loop", st.i + 1,
                                Clamp(NewtonUpdate(st.sigma, price_diff, vega),
                                      AdvancedSigmaFloor, SigmaCeiling),
                                last),
              result |-> NoResult]

advanced_exhausted(st) ==
    [state |-> IVDone(st, st.last), result |-> IVReturn(advanced_return(st.sigma), "cap")]

\* the call: the guard and the initial guess
IVEnter ==
    /\ iv_state.pc = "start"
    /\ LET next == CASE iv_request.calc = "yahoo" -> yahoo_enter(iv_request)
                     [] iv_request.calc = "nse" -> nse_enter(iv_request)
                     [] OTHER -> advanced_enter(iv_request)
       IN  iv_state' = next.state /\ iv_result' = next.result
    /\ UNCHANGED <<iv_request, nonIVVars>>

\* one pass of the loop, for i in range(max_iterations)
IVIterate ==
    /\ iv_state.pc = "loop"
    /\ iv_state.i < max_iterations
    /\ \E price_diff \in PriceDiffs, vega \in VegaChoices :
           LET next == CASE iv_request.calc = "yahoo" ->
                                yahoo_iteration(iv_state, price_diff, vega)
                         [] iv_request.calc = "nse" ->
                                nse_iteration(iv_state, price_diff, vega)
                         [] OTHER -> advanced_iteration(iv_state, price_diff, vega)
           IN  iv_state' = next.state /\ iv_result' = next.result
    /\ UNCHANGED <<iv_request, nonIVVars>>

\* the loop ran max_iterations times without leaving
IVExhausted ==
    /\ iv_state.pc = "loop"
    /\ iv_state.i = max_iterations
    /\ LET next == CASE iv_request.calc = "yahoo" -> yahoo_exhausted(iv_state)
                     [] iv_request.calc = "nse" -> nse_exhausted(iv_state)
                     [] OTHER -> advanced_exhausted(iv_state)
       IN  iv_state' = next.state /\ iv_result' = next.result
    /\ UNCHANGED <<iv_request, nonIVVars>>

InitIV ==
    /\ iv_request \in [calc : IVCalculators, days : IVDays, option_price : IVOptionPrices]
    /\ iv_state = IVState("start", 0, 0, NotEvaluated)
    /\ iv_result = NoResult
    /\ OIIdle
    /\ FetchIdle
    /\ ChainIdle
    /\ EnhancerIdle
    /\ PricingIdle
    /\ PortfolioIdle
    /\ ExpiryIdle
    /\ RequestIdle
    /\ ConnectorIdle

NextIV ==
    \/ IVEnter
    \/ IVIterate
    \/ IVExhausted

SpecIV == InitIV /\ [][NextIV]_vars

----------------------------------------------------------------------------
(* The OI enhancer of enhanced_oi_calculator.py.  fastapi_nse.py keeps one  *)
(* OpenInterestCalculator and one MarketDataEnhancer for all requests; the *)
(* random module is seeded when they are constructed and every call draws  *)
(* from the same stream.  OI and prices in hundredths.                     *)

MaxOptions == 2

MaxEnhancerCalls == 2

EnhancerStrikes == {24300, 24350}

EnhancerSpots == {24300, 24330}

TheoreticalPrices == {12000}

\* an option record as the chain builder hands it over, without the enhancer's fields
FreshOption(strike, option_type, theoretical_price) ==
    [strike |-> strike, option_type |-> option_type,
     theoretical_price |-> theoretical_price, open_interest |-> None, total_oi |-> None,
     change_in_oi |-> None, volume |-> None, ltp |-> None]

FreshOptions ==
    {FreshOption(k, t, price) : k \in EnhancerStrikes, t \in {"CALL", "PUT"},
                                price \in TheoreticalPrices}

OptionLists == UNION {[1..n -> FreshOptions] : n \in 1..MaxOptions}

\* the values random.random() yields after random.seed(42), in thousandths
RandomStream ==
    <<639, 25, 275, 223, 736, 677, 892, 87,
      422, 30, 219, 505, 27, 199, 650, 545,
      220, 589, 809, 6, 806, 698, 340, 155,
      957, 337, 93, 97, 847, 604, 807, 730,
      536, 973, 379, 552, 829, 619, 862, 577,
      705, 46, 228, 289, 80, 233, 101, 278,
      636, 365, 370, 210, 267, 937, 648, 609,
      171, 729, 163, 379, 990, 640, 557, 685>>

\* the value the stream yields at a position (the first one at position 0)
random(position) == RandomStream[position + 1]

\* call and put OI of calculate_theoretical_oi before the random variation (volatility
\* 0.20, 7 days to expiry), keyed by <<spot_price, atm_strike, strike>>
PreRandomOI ==
    <<24300, 24300, 24300>> :> [call_oi |-> 15217, put_oi |-> 15217] @@
    <<24300, 24300, 24350>> :> [call_oi |-> 15139, put_oi |-> 15139] @@
    <<24300, 24350, 24350>> :> [call_oi |-> 15217, put_oi |-> 15217] @@
    <<24330, 24300, 24300>> :> [call_oi |-> 15217, put_oi |-> 15217] @@
    <<24330, 24350, 24300>> :> [call_oi |-> 15139, put_oi |-> 15139] @@
    <<24330, 24350, 24350>> :> [call_oi |-> 15217, put_oi |-> 15217]

\* oi *= (0.8 + 0.4 * random.random()), then round(oi, 2)
VaryOI(oi, r) == RoundHalfEven(oi * (8000 + 4 * r), 10000)

\* OpenInterestCalculator.calculate_theoretical_oi, called when the stream is at
\* position: two values are drawn per strike
calculate_theoretical_oi(spot_price, strike_prices, position) ==
    LET atm_strike == NearestStrike(strike_prices, spot_price)
    IN  [n \in DOMAIN strike_prices |->
            LET pre == PreRandomOI[<<spot_price, atm_strike, strike_prices[n]>>]
                call_oi == VaryOI(pre.call_oi, random(position + 2 * (n - 1)))
                put_oi == VaryOI(pre.put_oi, random(position + 2 * (n - 1) + 1))
            IN  [strike |-> strike_prices[n], call_oi |-> call_oi, put_oi |-> put_oi,
                 total_oi |-> call_oi + put_oi, pcr |-> <<put_oi, call_oi>>]]

\* MarketDataEnhancer.enhance_options_data (the OI, volume and last-price fields): the
\* OI map first, then three values drawn per option
enhance_options_data(options, spot_price, position) ==
    LET strike_prices == SortedStrikes(options)
        oi == calculate_theoretical_oi(spot_price, strike_prices, position)
        drawn == position + 2 * Len(strike_prices)
        row(strike) == oi[CHOOSE n \in DOMAIN oi : oi[n].strike = strike]
    IN  [n \in DOMAIN options |->
            LET option == options[n]
                open_interest == IF Lower(option.option_type) = "call"
                                 THEN row(option.strike).call_oi
                                 ELSE row(option.strike).put_oi
                at == drawn + 3 * (n - 1)
            IN  [option EXCEPT
                    !.open_interest = Value(open_interest),
                    !.total_oi = Value(row(option.strike).total_oi),
                    !.change_in_oi =
                        Value(RoundHalfEven(open_interest * (4 * random(at) - 2000), 10000)),
                    !.volume =
                        Value(RoundHalfEven(open_interest * (1000 + 4 * random(at + 1)), 10000)),
                    !.ltp =
                        Value(RoundHalfEven(option.theoretical_price * (9500 + random(at + 2)),
                                            10000))]]

\* a call of calculate_theoretical_oi for the strikes of the chain, as GET /oi-chart
\* makes it
CalculateTheoreticalOI ==
    /\ Len(enhancer_log) < MaxEnhancerCalls
    /\ LET strike_prices == SortedStrikes(options_data)
       IN  /\ enhancer_log' =
                  Append(enhancer_log,
                         [op |-> "calculate_theoretical_oi",
                          input |-> [spot_price |-> enhancer_spot, strikes |-> strike_prices],
                          output |-> calculate_theoretical_oi(enhancer_spot, strike_prices,
                                                              rng_position)])
           /\ rng_position' = rng_position + 2 * Len(strike_prices)
    /\ UNCHANGED <<options_data, enhancer_spot, nonEnhancerVars>>

\* a call of enhance_options_data: it writes its fields into the records of the list it
\* was handed and returns a list of these same records
EnhanceOptionsData ==
    /\ Len(enhancer_log) < MaxEnhancerCalls
    /\ LET enhanced_data == enhance_options_data(options_data, enhancer_spot, rng_position)
       IN  /\ enhancer_log' =
                  Append(enhancer_log,
                         [op |-> "enhance_options_data",
                          input |-> [spot_price |-> enhancer_spot, options_data |-> options_data],
                          output |-> enhanced_data])
           /\ options_data' = enhanced_data
    /\ rng_position' = rng_position + 2 * Len(SortedStrikes(options_data))
                                    + 3 * Len(options_data)
    /\ UNCHANGED <<enhancer_spot, nonEnhancerVars>>

InitEnhancer ==
    /\ options_data \in OptionLists
    /\ enhancer_spot \in EnhancerSpots
    /\ rng_position = 0
    /\ enhancer_log = <<>>
    /\ OIIdle
    /\ FetchIdle
    /\ ChainIdle
    /\ NumericsIdle
    /\ ExpiryIdle
    /\ RequestIdle
    /\ ConnectorIdle

NextEnhancer ==
    \/ CalculateTheoreticalOI
    \/ EnhanceOptionsData

SpecEnhancer == InitEnhancer /\ [][NextEnhancer]_vars

----------------------------------------------------------------------------
(* The expiry date functions.  A datetime is [day, minute]: the day counted *)
(* from 2024-01-01 (a Monday), and the minute of the day.                   *)

EpochYear == 2024

\* the last day datetime.now() is drawn from (2025-12-31)
MaxDay == 730

\* 00:00, 09:15, 15:29, 15:30, 15:45, 16:05
ClockTimes == {0, 555, 929, 930, 945, 965}

Thursday == 3

DaysInWeek == 7

IsLeap(y) == (y % 4 = 0 /\ y % 100 # 0) \/ y % 400 = 0

DaysInYear(y) == IF IsLeap(y) THEN 366 ELSE 365

DaysInMonth(y, m) ==
    IF m = 2 THEN (IF IsLeap(y) THEN 29 ELSE 28)
    ELSE IF m \in {4, 6, 9, 11} THEN 30 ELSE 31

RECURSIVE DaysBeforeYear(_)
DaysBeforeYear(y) == IF y <= EpochYear THEN 0 ELSE DaysBeforeYear(y - 1) + DaysInYear(y - 1)

RECURSIVE DaysBeforeMonth(_, _)
DaysBeforeMonth(y, m) == IF m <= 1 THEN 0 ELSE DaysBeforeMonth(y, m - 1) + DaysInMonth(y, m - 1)

\* datetime(y, m, d), as a day
Date(y, m, d) == DaysBeforeYear(y) + DaysBeforeMonth(y, m) + d - 1

YearOf(day) ==
    CHOOSE y \in EpochYear..(EpochYear + 1 + MaxDay \div 365) :
        DaysBeforeYear(y) <= day /\ day < DaysBeforeYear(y + 1)

MonthOf(day) ==
    CHOOSE m \in 1..12 :
        /\ Date(YearOf(day), m, 1) <= day
        /\ day < Date(YearOf(day), m, 1) + DaysInMonth(YearOf(day), m)

\* datetime.weekday(): Monday is 0
weekday(day) == day % DaysInWeek

\* a < b on datetimes
Earlier(a, b) == a.day < b.day \/ (a.day = b.day /\ a.minute < b.minute)

Midnight(day) == [day |-> day, minute |-> 0]

\* datetime(year, month + 1, 1), or datetime(year + 1, 1, 1) in December
FirstOfNextMonth(day) ==
    IF MonthOf(day) = 12 THEN Date(YearOf(day) + 1, 1, 1)
    ELSE Date(YearOf(day), MonthOf(day) + 1, 1)

\* the 'Find last Thursday' step: the last Thursday on or before last_day
LastThursdayUpTo(last_day) ==
    LET days_to_thursday == (Thursday - weekday(last_day)) % DaysInWeek
    IN  IF days_to_thursday > 0 THEN last_day - (DaysInWeek - days_to_thursday)
        ELSE last_day

\* NiftyOptionsChain.get_next_expiry of nse_nifty_greeks.py.  In the branch taken
\* when this month's expiry is past, next_month is the first day of the month after
\* last_thursday's month, and last_day is that day minus one (both assignments to
\* last_day give next_month - 1 day)
nse_get_next_expiry(today) ==
    LET last_day == FirstOfNextMonth(today.day) - 1
        last_thursday == LastThursdayUpTo(last_day)
    IN  IF Earlier(Midnight(last_thursday), today)
        THEN Midnight(LastThursdayUpTo(FirstOfNextMonth(last_thursday) - 1))
        ELSE Midnight(last_thursday)

\* NiftyOptionsChain.get_next_expiry of yahoo_nifty_greeks.py
yahoo_get_next_expiry(today) ==
    LET days_ahead == Thursday - weekday(today.day)
    IN  [day |-> today.day + (IF days_ahead <= 0 THEN days_ahead + DaysInWeek ELSE days_ahead),
         minute |-> today.minute]

\* EnhancedNiftyDataFetcher.get_next_expiry_date of nifty_greeks_calculator.py
get_next_expiry_date(base_date) ==
    LET days_ahead == Thursday - weekday(base_date.day)
        next_expiry == base_date.day
                       + (IF days_ahead <= 0 THEN days_ahead + DaysInWeek ELSE days_ahead)
        hour == base_date.minute \div 60
        minute == base_date.minute % 60
    IN  [day |-> IF weekday(base_date.day) = Thursday /\ hour >= 15 /\ minute >= 30
                 THEN next_expiry + DaysInWeek
                 ELSE next_expiry,
         minute |-> base_date.minute]

NSEGetNextExpiry ==
    /\ expiry = NoResult
    /\ expiry' = [op |-> "nse_get_next_expiry", date |-> nse_get_next_expiry(clock_now)]
    /\ UNCHANGED <<clock_now, nonExpiryVars>>

YahooGetNextExpiry ==
    /\ expiry = NoResult
    /\ expiry' = [op |-> "yahoo_get_next_expiry", date |-> yahoo_get_next_expiry(clock_now)]
    /\ UNCHANGED <<clock_now, nonExpiryVars>>

GetNextExpiryDate ==
    /\ expiry = NoResult
    /\ expiry' = [op |-> "get_next_expiry_date", date |-> get_next_expiry_date(clock_now)]
    /\ UNCHANGED <<clock_now, nonExpiryVars>>

InitExpiry ==
    /\ clock_now \in [day : 0..MaxDay, minute : ClockTimes]
    /\ expiry = NoResult
    /\ OIIdle
    /\ FetchIdle
    /\ ChainIdle
    /\ NumericsIdle
    /\ EnhancerIdle
    /\ RequestIdle
    /\ ConnectorIdle

NextExpiry ==
    \/ NSEGetNextExpiry
    \/ YahooGetNextExpiry
    \/ GetNextExpiryDate

SpecExpiry == InitExpiry /\ [][NextExpiry]_vars

----------------------------------------------------------------------------
(* NSEDataFetcher._make_request and _refresh_cookies of nse_data_fetcher.py *)
(* and of data_fetcher.py.  Time in seconds; a response is its status and  *)
(* its body, or the exception the request raised.                          *)

Fetchers == {"nse_data_fetcher", "data_fetcher"}

\* the default max_retries of each fetcher
DefaultMaxRetries(fetcher) == IF fetcher = "nse_data_fetcher" THEN 3 ELSE 5

\* 'if elapsed < 300', the cookie cache of nse_data_fetcher.py
CookieCacheSeconds == 300

SecondsPerDay == 86400

MaxRequestCalls == 2

\* the time since the previous call: none, under and at the cache limit, a day and a bit
TimeDeltas == {0, 100, 300, SecondsPerDay + 100}

\* bodies: two JSON objects, the empty object, text that is no JSON
Bodies == {"d1", "d2", "{}", "invalid"}

Responses ==
    [status : {200}, body : Bodies]
        \cup [status : {401, 403, 429, 500}, body : {"{}"}]
        \cup {[status |-> 0, body |-> "Timeout"]}

\* the outcome of the GET of the main page: HTTP 200, another status, an exception
RefreshOutcomes == {"ok", "refused", "error"}

\* timedelta.seconds: the seconds of the difference without its whole days
timedelta_seconds(later, earlier) == (later - earlier) % SecondsPerDay

\* _refresh_cookies of nse_data_fetcher.py: [session, attempted, returned]
nse_refresh_cookies(session, outcome) ==
    IF session.last_cookie_refresh # None
       /\ timedelta_seconds(session.clock, session.last_cookie_refresh.v) < CookieCacheSeconds
    THEN [session |-> session, attempted |-> FALSE, returned |-> TRUE]
    ELSE IF outcome = "ok"
    THEN [session |-> [session EXCEPT !.last_cookie_refresh = Value(session.clock),
                                      !.cookies_at = Value(session.clock)],
          attempted |-> TRUE, returned |-> TRUE]
    ELSE [session |-> session, attempted |-> TRUE, returned |-> FALSE]

\* _refresh_cookies of data_fetcher.py: no cache, the main page is always fetched
plain_refresh_cookies(session, outcome) ==
    IF outcome = "ok"
    THEN [session |-> [session EXCEPT !.cookies_at = Value(session.clock)],
          attempted |-> TRUE, returned |-> TRUE]
    ELSE [session |-> session, attempted |-> TRUE, returned |-> FALSE]

\* the age of the cookies a request is sent with, when there are any
CookieAge(session) ==
    IF session.cookies_at = None THEN None
    ELSE Value(session.clock - session.cookies_at.v)

\* the body of the first attempt of the call that answered HTTP 200
NoteFirst200(call, response) ==
    IF call.first_200 = None /\ response.status = 200 THEN Value(response.body)
    ELSE call.first_200

\* a response a fetcher can use: HTTP 200 with a body that is JSON, and for
\* data_fetcher.py a JSON that is not empty
Usable(fetcher, response) ==
    /\ response.status = 200
    /\ response.body # "invalid"
    /\ fetcher = "data_fetcher" => response.body # "{}"

\* the body of the first attempt of the call that got a usable response
NoteFirstOK(call, response) ==
    IF call.first_ok = None /\ Usable(call.fetcher, response) THEN Value(response.body)
    ELSE call.first_ok

\* one pass of the loop of _make_request of nse_data_fetcher.py
nse_attempt(call, session, outcome, response) ==
    LET refresh == nse_refresh_cookies(session, outcome)
        sent == [call EXCEPT !.attempt = @ + 1, !.sent = @ + 1]
        last == [cookie_age |-> CookieAge(refresh.session), refreshed |-> refresh.attempted,
                 after_401 |-> http_last # NoResult /\ http_last.status = 401,
                 status |-> response.status]
    IN  IF response.status = 200 /\ response.body # "invalid"
        THEN [call |-> [sent EXCEPT !.pc = "done"], session |-> refresh.session,
              last |-> last, result |-> Returned(Value(response.body))]
        ELSE IF response.status = 401
        THEN [call |-> sent,
              session |-> [refresh.session EXCEPT !.last_cookie_refresh = None],
              last |-> last, result |-> NoResult]
        ELSE [call |-> sent, session |-> refresh.session, last |-> last,
              result |-> NoResult]

\* a pass that returns whatever body an HTTP 200 comes with
ReturnAnyBodyMutant(call, session, outcome, response) ==
    [call |-> [call EXCEPT !.attempt = @ + 1, !.sent = @ + 1,
                           !.pc = IF response.status = 200 THEN "done" ELSE @],
     session |-> session,
     last |-> [cookie_age |-> CookieAge(session), refreshed |-> FALSE, after_401 |-> FALSE,
               status |-> response.status],
     result |-> IF response.status = 200 THEN Returned(Value(response.body)) ELSE NoResult]

\* one pass of the loop of _make_request of data_fetcher.py: the main page is fetched
\* before attempts 0, 2 and 3; a body that is empty or no JSON is passed over
plain_attempt(call, session, outcome, response) ==
    LET refreshes == call.attempt \in {0, 2, 3}
        refresh == IF refreshes THEN plain_refresh_cookies(session, outcome)
                   ELSE [session |-> session, attempted |-> FALSE, returned |-> TRUE]
        sent == [call EXCEPT !.attempt = @ + 1, !.sent = @ + 1]
        last == [cookie_age |-> CookieAge(refresh.session), refreshed |-> refresh.attempted,
                 after_401 |-> FALSE, status |-> response.status]
    IN  IF response.status = 200 /\ response.body \notin {"invalid", "{}"}
        THEN [call |-> [sent EXCEPT !.pc = "done"], session |-> refresh.session,
              last |-> last, result |-> Returned(Value(response.body))]
        ELSE [call |-> sent, session |-> refresh.session, last |-> last,
              result |-> NoResult]

\* a caller calls _make_request, some time after the previous call
MakeRequestCall ==
    /\ http_call.pc \in {"idle", "done"}
    /\ http_call.calls < MaxRequestCalls
    /\ \E fetcher \in Fetchers, delta \in TimeDeltas :
           /\ http_call.fetcher \in {"none", fetcher}
           /\ http_call' = [fetcher |-> fetcher, pc |-> "loop", attempt |-> 0, sent |-> 0,
                            first_200 |-> None, first_ok |-> None,
                            calls |-> http_call.calls + 1]
           /\ http_session' = [http_session EXCEPT !.clock = @ + delta]
    /\ http_result' = NoResult
    /\ UNCHANGED <<http_last, nonRequestVars>>

\* one pass of the loop, for attempt in range(max_retries)
MakeRequestAttempt ==
    /\ http_call.pc = "loop"
    /\ http_call.attempt < DefaultMaxRetries(http_call.fetcher)
    /\ \E outcome \in RefreshOutcomes, response \in Responses :
           LET next == IF http_call.fetcher = "nse_data_fetcher"
                       THEN nse_attempt(http_call, http_session, outcome, response)
                       ELSE plain_attempt(http_call, http_session, outcome, response)
           IN  /\ http_call' = [next.call EXCEPT
                                   !.first_200 = NoteFirst200(http_call, response),
                                   !.first_ok = NoteFirstOK(http_call, response)]
               /\ http_session' = next.session
               /\ http_last' = next.last
               /\ http_result' = next.result
    /\ UNCHANGED nonRequestVars

\* the loop ended without a return: return None
MakeRequestExhausted ==
    /\ http_call.pc = "loop"
    /\ http_call.attempt = DefaultMaxRetries(http_call.fetcher)
    /\ http_call' = [http_call EXCEPT !.pc = "done"]
    /\ http_result' = Returned(None)
    /\ UNCHANGED <<http_session, http_last, nonRequestVars>>

InitRequest ==
    /\ http_call = IdleCall
    /\ http_session = NewSession
    /\ http_last = NoResult
    /\ http_result = NoResult
    /\ OIIdle
    /\ FetchIdle
    /\ ChainIdle
    /\ NumericsIdle
    /\ EnhancerIdle
    /\ ExpiryIdle
    /\ ConnectorIdle

NextRequest ==
    \/ MakeRequestCall
    \/ MakeRequestAttempt
    \/ MakeRequestExhausted

SpecRequest == InitRequest /\ [][NextRequest]_vars

----------------------------------------------------------------------------
(* AngelOneConnector of app.py and FastAPIAngelOneConnector of fastapi_app.py,
   with the routes /api/angel-one/... that drive them *)

\* requests the model lets the sessions send
MaxConnectorRequests == 4

\* client codes as character sequences; the second is shorter than the mask
ClientCodes == {<<"A", "1", "2", "3", "4">>, <<"B", "7">>}

EnvClientCode == <<"E", "N", "V", "0", "1">>

\* client_code[:4] + '****'
MaskLength == 4

Stars == <<"*", "*", "*", "*">>

Mask(code) ==
    SubSeq(code, 1, IF Len(code) < MaskLength THEN Len(code) ELSE MaskLength) \o Stars

\* what a session submits to set-credentials
SubmittedCredentials ==
    [client_code : {Value(c) : c \in ClientCodes}, pin : {Value("p1")},
     totp_secret : {None, Value("t1")}]

\* the environment with all three ANGEL_ONE_ variables set
FullEnv ==
    [client_code |-> Value(EnvClientCode), pin |-> Value("penv"),
     totp_secret |-> Value("tenv")]

EnvConfigs == {NoEnv, FullEnv}

\* python's a or b on optional values
Or(a, b) == IF a # None THEN a ELSE b

\* get_credential: session.get('angel_one_credentials', {}).get(credential_type)
get_credential(cookies, session, credential_type) ==
    IF cookies[session] = None THEN None ELSE cookies[session].v[credential_type]

\* has_credentials: bool(self.client_code and self.pin)
has_credentials(c) == c.client_code # None /\ c.pin # None

\* is_token_valid: a token and a login time, and the token's exp far enough ahead
is_token_valid(c, env) == c.jwt_token # None /\ c.login_time # None /\ ~env.jwt_expired

\* set_credentials of app.py: session storage of the requester, then the instance
\* (only the effect on the connector; the cookie is written by the action)
set_credentials(c, client_code, pin, totp_secret) ==
    [c EXCEPT !.client_code = client_code, !.pin = pin, !.totp_secret = totp_secret,
              !.stored = IF c.app = "fastapi_app"
                         THEN Value([client_code |-> client_code, pin |-> pin,
                                     totp_secret |-> totp_secret])
                         ELSE @]

\* clear_credentials: fastapi_app.py also empties _stored_credentials and the cache
clear_credentials(c) ==
    [c EXCEPT !.client_code = None, !.pin = None, !.totp_secret = None,
              !.jwt_token = None, !.refresh_token = None, !.feed_token = None,
              !.login_time = None, !.authorization = None,
              !.stored = None,
              !.cache = IF c.app = "fastapi_app" THEN None ELSE @]

\* the assignments of a granted login; seq identifies the tokens the server issued
GrantedLogin(c, seq) ==
    [c EXCEPT !.jwt_token = Value(seq), !.refresh_token = Value(seq),
              !.feed_token = Value(seq), !.login_time = Value(seq),
              !.authorization = Value(seq)]

\* login_with_manual_totp: [connector, ok]
login_with_manual_totp(c, client_code, password, granted, seq) ==
    IF granted
    THEN [connector |-> [GrantedLogin(c, seq) EXCEPT !.client_code = client_code,
                                                     !.pin = password],
          ok |-> TRUE]
    ELSE [connector |-> c, ok |-> FALSE]

\* login of app.py: re-reads the credentials of the requesting session or of the
\* environment, generates a TOTP, posts the login
login(c, cookies, session, config, granted, seq) ==
    LET refreshed ==
            [c EXCEPT !.client_code = Or(get_credential(cookies, session, "client_code"),
                                         config.client_code),
                      !.pin = Or(get_credential(cookies, session, "pin"), config.pin),
                      !.totp_secret = Or(get_credential(cookies, session, "totp_secret"),
                                         config.totp_secret)]
    IN  IF ~has_credentials(refreshed) \/ refreshed.totp_secret = None \/ ~granted
        THEN [connector |-> refreshed, ok |-> FALSE]
        ELSE [connector |-> GrantedLogin(refreshed, seq), ok |-> TRUE]

\* the login route of fastapi_app.py: stored credentials and a generated TOTP
fastapi_login(c, granted, seq) ==
    IF ~has_credentials(c) \/ c.totp_secret = None
    THEN [connector |-> c, ok |-> FALSE]
    ELSE login_with_manual_totp(c, c.client_code, c.pin, granted, seq)

\* fetch_option_greeks of app.py: [connector, ok (a login was granted), data]
fetch_option_greeks(c, cookies, session, env, granted, seq) ==
    IF c.cache # None
    THEN [connector |-> c, ok |-> FALSE, data |-> c.cache]
    ELSE LET auth == IF is_token_valid(c, env) THEN [connector |-> c, ok |-> FALSE]
                     ELSE login(c, cookies, session, env.config, granted, seq)
             authenticated == is_token_valid(c, env) \/ auth.ok
         IN  IF ~authenticated
             THEN [connector |-> auth.connector, ok |-> FALSE, data |-> None]
             ELSE [connector |-> [auth.connector EXCEPT !.cache = Value(seq)],
                   ok |-> auth.ok, data |-> Value(seq)]

\* fetch_option_chain of fastapi_app.py: nothing without a valid token, nothing cached
fetch_option_chain(c, env, granted, seq) ==
    [connector |-> c, ok |-> FALSE,
     data |-> IF is_token_valid(c, env) /\ granted THEN Value(seq) ELSE None]

\* the response to a request
Response(session, route, success, data) ==
    [seq |-> conn_response.seq + 1, session |-> session, route |-> route,
     success |-> success, data |-> data,
     credentials_configured |-> FALSE, has_totp_secret |-> FALSE, client_code |-> None]

RequestAllowed == conn_response.seq < MaxConnectorRequests

\* a login made the current token a new one
AfterLogin(ok) == [conn_env EXCEPT !.jwt_expired = IF ok THEN FALSE ELSE @]

\* POST /api/angel-one/set-credentials
SetCredentials ==
    /\ RequestAllowed
    /\ \E session \in WebSessions, submitted \in SubmittedCredentials :
           /\ connector' = set_credentials(connector, submitted.client_code, submitted.pin,
                                           submitted.totp_secret)
           /\ web_sessions' = IF connector.app = "app"
                              THEN [web_sessions EXCEPT ![session] = Value(submitted)]
                              ELSE web_sessions
           /\ conn_response' = Response(session, "set-credentials", TRUE, None)
           /\ conn_history' = [submitted |-> conn_history.submitted \cup {session},
                               cleared_at |-> None]
    /\ UNCHANGED <<conn_env, nonConnectorVars>>

\* POST /api/angel-one/clear-credentials
ClearCredentials ==
    /\ RequestAllowed
    /\ \E session \in WebSessions :
           /\ connector' = clear_credentials(connector)
           /\ web_sessions' = IF connector.app = "app"
                              THEN [web_sessions EXCEPT ![session] = None]
                              ELSE web_sessions
           /\ conn_response' = Response(session, "clear-credentials", TRUE, None)
           /\ conn_history' = [conn_history EXCEPT
                                  !.cleared_at = Value(conn_response.seq + 1)]
    /\ UNCHANGED <<conn_env, nonConnectorVars>>

\* POST /api/angel-one/login
Login ==
    /\ RequestAllowed
    /\ \E session \in WebSessions, granted \in BOOLEAN :
           LET seq == conn_response.seq + 1
               done == IF connector.app = "app"
                       THEN login(connector, web_sessions, session, conn_env.config,
                                  granted, seq)
                       ELSE fastapi_login(connector, granted, seq)
           IN  /\ connector' = done.connector
               /\ conn_env' = AfterLogin(done.ok)
               /\ conn_response' = Response(session, "login", done.ok, None)
    /\ UNCHANGED <<web_sessions, conn_history, nonConnectorVars>>

\* POST /api/angel-one/login-manual: stores the credentials first, then logs in
LoginManual ==
    /\ RequestAllowed
    /\ \E session \in WebSessions, client_code \in ClientCodes, granted \in BOOLEAN :
           LET seq == conn_response.seq + 1
               password == Value("p1")
               stored == set_credentials(connector, Value(client_code), password, None)
               done == login_with_manual_totp(stored, Value(client_code), password,
                                              granted, seq)
           IN  /\ connector' = done.connector
               /\ web_sessions' =
                      IF connector.app = "app"
                      THEN [web_sessions EXCEPT ![session] =
                                Value([client_code |-> Value(client_code),
                                       pin |-> password, totp_secret |-> None])]
                      ELSE web_sessions
               /\ conn_env' = AfterLogin(done.ok)
               /\ conn_response' = Response(session, "login-manual", done.ok, None)
               /\ conn_history' = [submitted |-> conn_history.submitted \cup {session},
                                   cleared_at |-> None]
    /\ UNCHANGED nonConnectorVars

\* GET /api/angel-one/status
AngelOneStatus ==
    /\ RequestAllowed
    /\ \E session \in WebSessions :
           conn_response' =
               [Response(session, "status", TRUE, None) EXCEPT
                   !.credentials_configured = has_credentials(connector),
                   !.has_totp_secret = connector.totp_secret # None,
                   !.client_code = IF connector.client_code # None
                                      /\ Len(connector.client_code.v) > MaskLength
                                   THEN Value(Mask(connector.client_code.v))
                                   ELSE None]
    /\ UNCHANGED <<connector, web_sessions, conn_env, conn_history, nonConnectorVars>>

\* GET /api/angel-one/check-credentials
CheckCredentials ==
    /\ RequestAllowed
    /\ \E session \in WebSessions :
           conn_response' =
               [Response(session, "check-credentials", TRUE, None) EXCEPT
                   !.credentials_configured = has_credentials(connector),
                   !.has_totp_secret = connector.totp_secret # None,
                   !.client_code = IF connector.client_code # None
                                   THEN Value(Mask(connector.client_code.v))
                                   ELSE None]
    /\ UNCHANGED <<connector, web_sessions, conn_env, conn_history, nonConnectorVars>>

\* GET /api/option-chain: fetch_option_greeks (app.py), fetch_option_chain (fastapi_app.py)
FetchOptionData ==
    /\ RequestAllowed
    /\ \E session \in WebSessions, granted \in BOOLEAN :
           LET seq == conn_response.seq + 1
               done == IF connector.app = "app"
                       THEN fetch_option_greeks(connector, web_sessions, session, conn_env,
                                                granted, seq)
                       ELSE fetch_option_chain(connector, conn_env, granted, seq)
           IN  /\ connector' = done.connector
               /\ conn_env' = AfterLogin(done.ok)
               /\ conn_response' = Response(session, "option-chain", done.data # None,
                                            done.data)
    /\ UNCHANGED <<web_sessions, conn_history, nonConnectorVars>>

\* time passes: the JWT comes within JWT_REFRESH_THRESHOLD of its exp
TokenExpires ==
    /\ connector.jwt_token # None
    /\ ~conn_env.jwt_expired
    /\ conn_env' = [conn_env EXCEPT !.jwt_expired = TRUE]
    /\ UNCHANGED <<connector, web_sessions, conn_response, conn_history, nonConnectorVars>>

\* time passes: int(time.time() // cache_timeout) moves on, the cache key is a new one
NextCacheWindow ==
    /\ connector.cache # None
    /\ connector' = [connector EXCEPT !.cache = None]
    /\ UNCHANGED <<web_sessions, conn_env, conn_response, conn_history, nonConnectorVars>>

InitConnector ==
    /\ \E application \in Apps, config \in EnvConfigs :
           /\ connector = NewConnector(application, config)
           /\ conn_env = [config |-> config, jwt_expired |-> FALSE]
    /\ web_sessions = NoWebCredentials
    /\ conn_response = NoResponse
    /\ conn_history = NoHistory
    /\ OIIdle
    /\ FetchIdle
    /\ ChainIdle
    /\ NumericsIdle
    /\ EnhancerIdle
    /\ ExpiryIdle
    /\ RequestIdle

NextConnector ==
    \/ SetCredentials
    \/ ClearCredentials
    \/ Login
    \/ LoginManual
    \/ AngelOneStatus
    \/ CheckCredentials
    \/ FetchOptionData
    \/ TokenExpires
    \/ NextCacheWindow

SpecConnector == InitConnector /\ [][NextConnector]_vars

----------------------------------------------------------------------------
(* Claims about the OI analytics, stated over the OI map as a set of strikes *)

StrikeSet == {oi_data[i].strike : i \in DOMAIN oi_data}

CallOI(k) == (CHOOSE row \in Range(oi_data) : row.strike = k).call_oi

PutOI(k) == (CHOOSE row \in Range(oi_data) : row.strike = k).put_oi

\* P(c) = sum over k < c of (c - k) * callOI(k) + sum over k > c of (k - c) * putOI(k)
Pain(c) ==
    SetSum([k \in StrikeSet |-> IF k < c THEN (c - k) * CallOI(k) ELSE 0], StrikeSet)
    + SetSum([k \in StrikeSet |-> IF k > c THEN (k - c) * PutOI(k) ELSE 0], StrikeSet)

\* the max-pain strike the last operation reported, if it reported one
ReportsMaxPain ==
    \/ analytics.op = "max_pain" /\ analytics.result.raised = "none"
    \/ analytics.op = "comprehensive" /\ analytics.result.raised = "none"
    \/ analytics.op = "app_analyze" /\ analytics.result.success

ReportedMaxPain ==
    IF analytics.op = "max_pain" THEN analytics.result.strike
    ELSE analytics.result.max_pain_strike

ExampleOI ==
    <<[strike |-> 100, call_oi |-> 10, put_oi |-> 50],
      [strike |-> 200, call_oi |-> 30, put_oi |-> 30],
      [strike |-> 300, call_oi |-> 50, put_oi |-> 10]>>

IsExampleOI == Range(oi_data) = Range(ExampleOI)

\* C1: over a non-empty strike set, the max-pain computation returns a strike of
\* the set that minimises the total pain P(c), no strike of the set has a
\* strictly smaller P; for strikes {100, 200, 300} with (callOI, putOI) =
\* (10, 50), (30, 30), (50, 10) the pains are 5000, 2000, 5000 and the result is 200.
C1_MaxPainMinimisesPain ==
    (analytics.op \in {"max_pain", "comprehensive", "app_analyze"} /\ oi_data # <<>>) =>
        /\ ReportsMaxPain
        /\ ReportedMaxPain \in StrikeSet
        /\ \A k \in StrikeSet : Pain(ReportedMaxPain) <= Pain(k)
        /\ IsExampleOI =>
              /\ Pain(100) = 5000 /\ Pain(200) = 2000 /\ Pain(300) = 5000
              /\ ReportedMaxPain = 200

C1_Witness ==
    /\ analytics.op = "max_pain"
    /\ oi_data = ExampleOI
    /\ analytics.result.strike = 200
    /\ \E k \in StrikeSet : Pain(k) > Pain(200)

TotalCallOI == SetSum([k \in StrikeSet |-> CallOI(k)], StrikeSet)

TotalPutOI == SetSum([k \in StrikeSet |-> PutOI(k)], StrikeSet)

\* the ratio is a number (no division error) and it is p / c
IsExactRatio(pcr, p, c) == pcr[2] # 0 /\ RatEq(pcr, <<p, c>>)

\* the ratio is a number and it is p / c rounded to 4 decimal places
IsRatioRoundedTo4(pcr, p, c) ==
    /\ pcr[2] = 10000
    /\ 2 * Abs(pcr[1] * c - 10000 * p) <= c

IsZeroSentinel(pcr) == pcr[2] # 0 /\ pcr[1] = 0

ReportsLevels ==
    \/ analytics.op = "support_resistance"
    \/ analytics.op = "comprehensive" /\ analytics.result.raised = "none"
    \/ analytics.op = "app_analyze" /\ analytics.result.success

\* levels are the (up to) TopK candidate strikes, ranked by their OI descending
IsTopKRanked(levels, candidates, oiOf(_)) ==
    /\ Len(levels) = (IF Cardinality(candidates) < TopK THEN Cardinality(candidates) ELSE TopK)
    /\ \A i \in DOMAIN levels : levels[i].strike \in candidates /\ levels[i].oi = oiOf(levels[i].strike)
    /\ \A i, j \in DOMAIN levels : i < j =>
          levels[i].oi >= levels[j].oi /\ levels[i].strike # levels[j].strike
    /\ \A k \in candidates :
          (\A i \in DOMAIN levels : levels[i].strike # k) =>
              \A i \in DOMAIN levels : levels[i].oi >= oiOf(k)

SupportLevelsRanked(levels) ==
    IsTopKRanked(levels, {k \in StrikeSet : k < oi_spot}, PutOI)

ResistanceLevelsRanked(levels) ==
    IsTopKRanked(levels, {k \in StrikeSet : k > oi_spot}, CallOI)

\* C9: the support levels are exactly the (up to) top-k strikes strictly below
\* spot ranked by put OI descending, the resistance levels the (up to) top-k
\* strikes strictly above spot ranked by call OI descending; no strike at or
\* above spot is a support and none at or below spot is a resistance.
C9_SupportResistanceBySpot ==
    ReportsLevels =>
        /\ SupportLevelsRanked(analytics.result.support_levels)
        /\ ResistanceLevelsRanked(analytics.result.resistance_levels)

\* the same statement for OpenInterestCalculator and MarketDataEnhancer alone
C9_EnhancedPathsOnly ==
    (ReportsLevels /\ analytics.op # "app_analyze") =>
        /\ SupportLevelsRanked(analytics.result.support_levels)
        /\ ResistanceLevelsRanked(analytics.result.resistance_levels)

----------------------------------------------------------------------------
(* Claims about the market data collaborators *)

\* the operation had to ask the spot feed, and the feed had no price
SpotWasUnavailable ==
    /\ fetch_result.op \in {"yahoo_chain", "nse_chain", "nse_portfolio"} => fetch_request.spot_price = None
    /\ upstream.spot.kind # "value"

\* the operation had to ask the volatility source, and it had none
VolatilityWasUnavailable ==
    /\ fetch_result.op \in {"yahoo_chain", "nse_chain"}
    /\ fetch_request.volatility = None
    /\ upstream.hist.kind # "value"

\* C8: when a data collaborator returns no data (the spot fetch fails or
\* returns None, the volatility source has no data), every operation that
\* needs that value refuses to compute and surfaces the failure; it never
\* continues with a hardcoded placeholder spot price or volatility.
C8_RefusesWithoutUpstreamData ==
    (fetch_result.op # "none" /\ (SpotWasUnavailable \/ VolatilityWasUnavailable)) =>
        fetch_result.outcome = "refused"

\* the part of C8 that yahoo_nifty_greeks.py does implement: no spot, no chain
C8_YahooRefusesWithoutSpot ==
    (fetch_result.op = "yahoo_chain" /\ SpotWasUnavailable) =>
        fetch_result.outcome = "refused"

----------------------------------------------------------------------------
(* Claims about the chain analysis *)

ChainStrikes == {chain[i].strike : i \in DOMAIN chain}

\* C10: for every non-empty chain and spot price S, the chain analytics summary
\* always contains an atm_strike, and it is a strike of the chain minimising
\* |strike - S|.
C10_ATMStrikeIsNearest ==
    /\ chain_analysis.op = "yahoo_analyze" =>
          /\ "atm_strike" \in chain_analysis.result.keys
          /\ chain_analysis.result.atm_strike \in ChainStrikes
          /\ \A k \in ChainStrikes :
                Abs(chain_analysis.result.atm_strike - chain_request.spot_price)
                    <= Abs(k - chain_request.spot_price)
    /\ (analytics.op = "comprehensive" /\ oi_data # <<>>) =>
          /\ analytics.result.raised = "none"
          /\ analytics.result.atm_strike \in StrikeSet
          /\ \A k \in StrikeSet :
                Abs(analytics.result.atm_strike - oi_spot) <= Abs(k - oi_spot)

\* when analyze_options_chain does report an atm_strike, it is a nearest strike
C10_ReportedATMStrikeIsNearest ==
    (chain_analysis.op = "yahoo_analyze" /\ "atm_strike" \in chain_analysis.result.keys) =>
          /\ chain_analysis.result.atm_strike \in ChainStrikes
          /\ \A k \in ChainStrikes :
                Abs(chain_analysis.result.atm_strike - chain_request.spot_price)
                    <= Abs(k - chain_request.spot_price)

----------------------------------------------------------------------------
(* Claims about the pricing and Greeks functions *)

\* the side tags that name a call or a put
ValidSideTags == {"call", "put", "CALL", "PUT"}

\* the input of the pricing or Greeks call made is invalid: S <= 0, K <= 0, sigma < 0,
\* or, where the operation takes a side, a tag that is neither call nor put
InvalidPricingInput ==
    \/ pricing_request.S <= 0
    \/ pricing_request.K <= 0
    \/ pricing_request.sigma < 0
    \/ pricing_result.op = "calculate_greeks" /\ pricing_request.option_type \notin ValidSideTags

\* C7: every pricing and Greeks operation rejects invalid input (S <= 0, K <= 0,
\* sigma < 0, a side tag that is neither call nor put) with InvalidParameter and never
\* returns a number for it
C7_InvalidInputRejected ==
    (pricing_result.op # "none" /\ InvalidPricingInput)
        => pricing_result.out = Raised("InvalidParameter")

----------------------------------------------------------------------------
(* Claims about the portfolio aggregation *)

\* a position the pricing model accepts: a positive strike, a side, sigma and T not negative
ValidPosition(pos) ==
    /\ pos.strike # None
    /\ pos.strike.v > 0
    /\ pos.option_type \in {"call", "put"}
    /\ pos.volatility >= 0
    /\ pos.days_to_expiry >= 0

ValidIndices == {i \in DOMAIN positions : ValidPosition(positions[i])}

InvalidIndices == DOMAIN positions \ ValidIndices

TotalNames == {"delta", "gamma", "theta", "vega", "rho", "value"}

\* the per-contract price and Greeks of a valid position, from the pricing model and the
\* Greeks calculator
PerContract(pos) ==
    LET price == PositionPrice("GreeksCalculator", pos, portfolio_spot).value
        greeks == PositionGreeks("GreeksCalculator", pos, portfolio_spot).value
    IN  [delta |-> greeks.delta.v, gamma |-> greeks.gamma.v, theta |-> greeks.theta.v,
         vega |-> greeks.vega.v, rho |-> greeks.rho.v, value |-> price.v]

\* the sum over the positions I of signed quantity times the per-contract value
QuantityWeightedSum(name, I) ==
    SetSum([i \in I |-> positions[i].quantity * PerContract(positions[i])[name]], I)

\* the grain a variant reports a total in: the NSE variant rounds delta, theta, vega and
\* rho to 4 places, every variant rounds gamma to 6
ReportedGrain(name) ==
    IF name = "value" THEN 1
    ELSE IF name = "gamma" THEN 100
    ELSE IF portfolio_result.op = "nse_portfolio" THEN 100
    ELSE 1

\* every reported total is the quantity-weighted sum over the positions I, to the places
\* the variant reports
TotalsAreSumsOver(I) ==
    \A name \in TotalNames :
        portfolio_result.totals[name] =
            RoundNum(Num(QuantityWeightedSum(name, I)), ReportedGrain(name))

\* C3: for valid positions every portfolio total (delta, gamma, theta, vega, rho, value)
\* is the sum over the positions of signed quantity times the per-contract value that the
\* pricing model and the Greeks calculator give for the position
C3_TotalsAreQuantityWeightedSums ==
    (portfolio_result.op # "none" /\ InvalidIndices = {})
        => (portfolio_result.success /\ TotalsAreSumsOver(DOMAIN positions))

\* C4: when some positions are malformed the call does not abort, the totals are the
\* aggregate of exactly the valid positions, and every invalid position has an error
\* entry next to the summary
C4_PartialFailureTolerated ==
    (portfolio_result.op # "none" /\ InvalidIndices # {})
        => /\ portfolio_result.success
           /\ TotalsAreSumsOver(ValidIndices)
           /\ "errors" \in DOMAIN portfolio_result
           /\ Len(portfolio_result.errors) = Cardinality(InvalidIndices)

----------------------------------------------------------------------------
(* Claims about the implied-volatility solvers *)

\* the tolerance of the solver called
IVTolerance ==
    CASE iv_request.calc = "yahoo" -> YahooTolerance
      [] iv_request.calc = "nse" -> NSETolerance
      [] OTHER -> AdvancedTolerance

IVReturned == iv_result.op # "none"

\* the solver returned a number, which its caller reads as the implied volatility
ReturnsVolatility == IVReturned /\ iv_result.out.kind = "value"

\* C5: a volatility returned as a success is one at which the model price is within the
\* tolerance of the market price; when the iteration cap is reached or the raw vega
\* underflows the solver returns an explicit failure, never the last iterate
C5_NoUnconvergedSuccess ==
    (IVReturned /\ iv_result.exit # "guard")
        => /\ ReturnsVolatility
                  => /\ iv_state.last.sigma = iv_result.out.v
                     /\ Abs(iv_state.last.price_diff) < IVTolerance
           /\ iv_result.exit \in {"cap", "vega"} => ~ReturnsVolatility

\* the request has T <= 0 or a market price <= 0
IVDegenerateRequest == iv_request.days <= 0 \/ iv_request.option_price <= 0

\* C6: called with T <= 0 or market price <= 0 the solver runs no iteration and returns
\* an explicit failure, distinct from every numeric volatility, 0.0 included
C6_DegenerateRequestFails ==
    IVDegenerateRequest
        => /\ iv_state.pc # "loop"
           /\ IVReturned => ~ReturnsVolatility

----------------------------------------------------------------------------
(* Claims about the chains the builders produce *)

\* a builder returned a chain
ChainProduced == chain # NoChain /\ (Len(chain) > 0 => chain[1].strike # 0)

\* the records of one side, in chain order
SideRecords(side) == SelectSeq(chain, LAMBDA c : c.option_type = side)

StrictlyIncreasingStrikes(records) ==
    \A n \in 1..(Len(records) - 1) : records[n].strike < records[n + 1].strike

\* C11: in every chain a builder produces the strikes of each side are strictly
\* increasing in chain order, so each (strike, side) pair occurs at most once
C11_StrikesUniqueAndIncreasing ==
    ChainProduced
        => \A side \in {"CALL", "PUT"} : StrictlyIncreasingStrikes(SideRecords(side))

\* the side of a record that is not at the money, read off strike and spot
DirectionalMoneyness(c) ==
    IF c.option_type = "CALL"
    THEN (IF c.strike < c.spot_price THEN "ITM" ELSE "OTM")
    ELSE (IF c.strike > c.spot_price THEN "ITM" ELSE "OTM")

\* C12: every record of a produced chain is ATM, ITM or OTM; a record that is not ATM
\* is ITM or OTM as its side, strike and spot say; the call and the put of one strike
\* are both ATM or neither is, so they carry opposite ITM/OTM labels when not ATM
C12_MoneynessClassification ==
    ChainProduced
        => \A n \in DOMAIN chain :
               /\ chain[n].moneyness \in {"ATM", "ITM", "OTM"}
               /\ chain[n].moneyness # "ATM"
                      => chain[n].moneyness = DirectionalMoneyness(chain[n])
               /\ \A m \in DOMAIN chain :
                      chain[m].strike = chain[n].strike
                          => (chain[m].moneyness = "ATM" <=> chain[n].moneyness = "ATM")

----------------------------------------------------------------------------
(* Claims about the strike lists *)

\* C13: the base strike a builder uses is a multiple of 50 nearest to the spot price,
\* at most 25 points away from it
C13_BaseStrikeIsNearest ==
    strike_list # NoStrikes
        => /\ strike_list.base_strike % ChainStrikeStep = 0
           /\ 2 * Abs(strike_list.base_strike - chain_request.spot_price) <= ChainStrikeStep

\* the builders whose request carries the atm_only flag
ATMOnlyBuilders == {"yahoo", "nse"}

\* base + i * 50 for every i from -half to half, in increasing order
SymmetricStrikes(base, half) ==
    [n \in 1..(2 * half + 1) |-> base + (n - 1 - half) * ChainStrikeStep]

\* C14: with atm_only requested, a builder that takes the flag generates exactly the
\* 11 strikes base + i * 50, i from -5 to 5
C14_ATMOnlyGivesElevenStrikes ==
    (strike_list.builder \in ATMOnlyBuilders /\ chain_request.atm_only)
        => strike_list.strikes = SymmetricStrikes(strike_list.base_strike, ATMOnlyHalfWidth)

\* the fixed count a builder works with: the requested one, or 31 where it is built in
FixedCount(builder) ==
    IF builder \in ATMOnlyBuilders THEN chain_request.num_strikes ELSE 2 * FixedHalfWidth + 1

----------------------------------------------------------------------------
(* Claims about the Greeks at expiry *)

\* delta at expiry: 1{S > K} for a call, -1{S < K} for a put, in millionths
ExpiryDelta(S, K, option_type) ==
    IF Lower(option_type) = "call" THEN (IF S > K THEN 1000000 ELSE 0)
    ELSE (IF S < K THEN -1000000 ELSE 0)

\* C16: for T <= 0, positive S and K and any accepted spelling of the side tag, the
\* Greeks returned have delta 1{S > K} (call) or -1{S < K} (put) and gamma, theta,
\* vega and rho all 0
C16_GreeksAtExpiry ==
    (/\ pricing_result.op = "calculate_greeks"
     /\ pricing_request.days <= 0
     /\ pricing_request.S > 0
     /\ pricing_request.K > 0
     /\ pricing_request.option_type \in ValidSideTags)
        => /\ pricing_result.out.kind = "return"
           /\ LET g == pricing_result.out.value
                   q == pricing_request
               IN  /\ g.delta = Num(ExpiryDelta(q.S, q.K, q.option_type))
                   /\ g.gamma = Num(0)
                   /\ g.theta = Num(0)
                   /\ g.vega = Num(0)
                   /\ g.rho = Num(0)

----------------------------------------------------------------------------
(* Claims about the OI enhancer *)

\* C17: two calls of one operation with identical inputs return identical outputs
C17_Deterministic ==
    \A i, j \in DOMAIN enhancer_log :
        (enhancer_log[i].op = enhancer_log[j].op
            /\ enhancer_log[i].input = enhancer_log[j].input)
            => enhancer_log[i].output = enhancer_log[j].output

\* C18: no operation changes the option records or the OI map it was handed
C18_RecordsNotMutated == [][options_data' = options_data /\ oi_data' = oi_data]_vars

----------------------------------------------------------------------------
(* Claims about ties in the OI analytics *)

\* C19: among the strikes of minimal total pain the max-pain computation reports the
\* lowest, in whatever order the strikes of the OI map were inserted
C19_MaxPainTieLowestStrike ==
    (ReportsMaxPain /\ oi_data # <<>>)
        => \A k \in StrikeSet : Pain(k) = Pain(ReportedMaxPain) => ReportedMaxPain <= k

\* among levels of equal OI the one closer to spot comes first, and a candidate left
\* out is no closer to spot than a level of the same OI
TiesByProximity(levels, candidates) ==
    /\ \A i, j \in DOMAIN levels :
           (i < j /\ levels[i].oi = levels[j].oi) => levels[i].distance <= levels[j].distance
    /\ \A c \in Range(candidates) :
           c \notin Range(levels)
               => \A i \in DOMAIN levels :
                      levels[i].oi = c.oi => levels[i].distance <= c.distance

\* C20: support candidates of equal put OI, and resistance candidates of equal call OI,
\* are ranked with the strike closer to spot first, also across the top-k cut-off
C20_LevelTiesByProximity ==
    analytics.op = "support_resistance"
        => /\ TiesByProximity(analytics.result.support_levels,
                              SupportCandidates(oi_data, oi_spot))
           /\ TiesByProximity(analytics.result.resistance_levels,
                              ResistanceCandidates(oi_data, oi_spot))

----------------------------------------------------------------------------
(* Claims about the iterates of the implied-volatility solvers *)

\* the interval [0.01, 5.0] in thousandths
SigmaInterval == AdvancedSigmaFloor..SigmaCeiling

\* C21: every sigma at which a solver evaluates the price, and every sigma a solver
\* returns after iterating, lies in [0.01, 5.0]
C21_IteratesWithinInterval ==
    /\ iv_state.last # NotEvaluated => iv_state.last.sigma \in SigmaInterval
    /\ (iv_result # NoResult /\ iv_result.exit # "guard" /\ iv_result.out # None)
           => iv_result.out.v \in SigmaInterval

----------------------------------------------------------------------------
(* Claims about a zero volatility *)

\* the call made had sigma = 0, T > 0, positive S and K and, if it takes a side, a
\* valid side tag
ZeroVolatilityRequest ==
    /\ pricing_result.op # "none"
    /\ pricing_request.sigma = 0
    /\ pricing_request.days > 0
    /\ pricing_request.S > 0
    /\ pricing_request.K > 0
    /\ pricing_request.option_type \in ValidSideTags

\* C22: with sigma = 0 and T > 0 a price is the deterministic payoff and the Greeks are
\* those of the T <= 0 case; no NaN is returned
C22_ZeroVolatilityDegenerate ==
    ZeroVolatilityRequest
        => /\ pricing_result.out.kind = "return"
           /\ LET q == pricing_request
                   out == pricing_result.out.value
               IN  CASE pricing_result.op = "black_scholes_call" -> out = Intrinsic(q.S, q.K)
                     [] pricing_result.op = "black_scholes_put" -> out = Intrinsic(q.K, q.S)
                     [] OTHER ->
                            /\ out.delta = Num(ExpiryDelta(q.S, q.K, q.option_type))
                            /\ out.gamma = Num(0)
                            /\ out.theta = Num(0)
                            /\ out.vega = Num(0)
                            /\ out.rho = Num(0)

\* the Greeks returned for a zero volatility carry no NaN
C22_NoNaNReturned ==
    (ZeroVolatilityRequest /\ pricing_result.op = "calculate_greeks")
        => /\ pricing_result.out.kind = "return"
           /\ ~pricing_result.out.value.gamma.nan
           /\ ~pricing_result.out.value.delta.nan

----------------------------------------------------------------------------
(* Claims about the expiry dates *)

\* day is the last Thursday of its month
IsLastThursdayOfMonth(day) ==
    /\ weekday(day) = Thursday
    /\ MonthOf(day + DaysInWeek) # MonthOf(day)

\* C23: the monthly expiry returned is the last Thursday of a month and not earlier
\* than the current date: this month's last Thursday if the current date is not after
\* it, otherwise next month's
C23_MonthlyExpiryNotPast ==
    expiry.op = "nse_get_next_expiry"
        => /\ IsLastThursdayOfMonth(expiry.date.day)
           /\ expiry.date.day >= clock_now.day
           /\ expiry.date.day < clock_now.day + 2 * 31

\* C24: a weekly expiry returned is a Thursday between 1 and 7 days after the base date
C24_WeeklyExpiryWithinAWeek ==
    expiry.op \in {"yahoo_get_next_expiry", "get_next_expiry_date"}
        => /\ weekday(expiry.date.day) = Thursday
           /\ expiry.date.day - clock_now.day \in 1..DaysInWeek

----------------------------------------------------------------------------
(* Claims about the NSE request loop *)

CallDone == http_call.pc = "done"

\* C25 as stated: a finished call sent at most max_retries requests, raised nothing,
\* and returned the JSON of the first attempt that answered HTTP 200, None when no
\* attempt answered HTTP 200
C25_FirstHTTP200Returned ==
    CallDone
        => /\ http_call.sent <= DefaultMaxRetries(http_call.fetcher)
           /\ http_result.kind = "return"
           /\ http_result.value = http_call.first_200

\* C25, amended: a finished call sent at most max_retries requests, raised nothing,
\* and returned the JSON of the first attempt that answered HTTP 200 with a usable body
\* (one that decodes as JSON and, for data_fetcher.py, is not empty), None exactly when
\* no attempt did; a call in progress has made at most max_retries attempts
C25_FirstUsableResponseReturned ==
    /\ http_call.attempt <= DefaultMaxRetries(http_call.fetcher)
    /\ http_call.sent <= DefaultMaxRetries(http_call.fetcher)
    /\ http_result # NoResult <=> CallDone
    /\ CallDone
           => /\ http_result.kind = "return"
              /\ http_result.value = http_call.first_ok

\* a call passed over an empty body and an undecodable one and returned the third
C25_Witness ==
    /\ CallDone
    /\ http_call.fetcher = "data_fetcher"
    /\ http_call.sent = 3
    /\ http_call.first_200 = Value("{}")
    /\ http_result = Returned(Value("d2"))

\* C26: a data request of nse_data_fetcher.py is sent with cookies older than 300
\* seconds only after a refresh attempt, and the attempt after a 401 answer refreshes
C26_CookiesCachedFiveMinutes ==
    (http_call.fetcher = "nse_data_fetcher" /\ http_last # NoResult)
        => /\ (http_last.cookie_age # None /\ http_last.cookie_age.v >= CookieCacheSeconds)
                  => http_last.refreshed
           /\ http_last.cookie_age = None => http_last.refreshed
           /\ http_last.after_401 => http_last.refreshed

----------------------------------------------------------------------------
(* Claims about the Angel One connector *)

\* credentials were cleared and none submitted since
ClearedPhase == conn_history.cleared_at # None

\* C27: after clear_credentials, until credentials are submitted again, the connector
\* has no credentials, has no valid token, and the option data it returns was not
\* fetched before the clearing
C27_ClearedConnectorServesNothing ==
    ClearedPhase
        => /\ ~has_credentials(connector)
           /\ ~is_token_valid(connector, conn_env)
           /\ (conn_response.route = "option-chain" /\ conn_response.data # None)
                  => conn_response.data.v > conn_history.cleared_at.v

\* the state the manual login is said to leave alone
CredentialState ==
    <<connector.client_code, connector.pin, connector.totp_secret, connector.jwt_token,
      connector.refresh_token, connector.feed_token, connector.login_time>>

\* C28: a manual-login request whose login fails leaves client code, PIN, TOTP
\* secret, the three tokens and login_time as they were before the request
C28_FailedManualLoginChangesNothing ==
    [][(/\ conn_response'.seq # conn_response.seq
        /\ conn_response'.route = "login-manual"
        /\ ~conn_response'.success)
           => CredentialState' = CredentialState]_vars

\* C29: what status and check-credentials answer to a session that never submitted
\* credentials comes from the environment configuration alone: no credentials are
\* reported that the environment does not hold, and the masked client code is the
\* environment's or none
C29_CredentialsNotSharedAcrossSessions ==
    (/\ conn_response.route \in {"status", "check-credentials"}
     /\ conn_response.session \notin conn_history.submitted)
        => /\ conn_response.credentials_configured => has_credentials(conn_env.config)
           /\ conn_response.has_totp_secret => conn_env.config.totp_secret # None
           /\ conn_response.client_code \in {None, Value(Mask(EnvClientCode))}

----------------------------------------------------------------------------
(* Claims about the totals of the comprehensive analytics *)

\* the sum of open_interest over all records of one side
SideOpenInterest(data, side) ==
    SeqSum([i \in DOMAIN data |->
                IF Lower(data[i].option_type) = side THEN data[i].open_interest ELSE 0])

\* C30: total_call_oi and total_put_oi of calculate_comprehensive_analytics are the
\* sums of open_interest over all call records and all put records of the input,
\* also when records share strike and side
C30_TotalsSumAllRecords ==
    (analytics.op = "comprehensive" /\ analytics.result.raised = "none")
        => /\ analytics.result.total_call_oi
                  = SideOpenInterest(analytics.enhanced_data, "call")
           /\ analytics.result.total_put_oi
                  = SideOpenInterest(analytics.enhanced_data, "put")

====
